---- MODULE Spec2Model ----
(***************************************************************************)
(* Recipe persistence engine of eatinn: RecipeModel.Insert, Get, Update    *)
(* and Delete (internal/data/recipes.go) running against the PostgreSQL    *)
(* schema of migrations/000003_create_recipes_table.up.sql.                *)
(*                                                                         *)
(* The store is modelled at READ COMMITTED: `db` holds the committed rows, *)
(* every open transaction keeps the rows it has inserted (put) and the     *)
(* committed rows it has deleted or replaced (del), and sees               *)
(* (db \ del) \cup put.  Row locks taken by UPDATE and by                  *)
(* INSERT .. ON CONFLICT DO UPDATE are held until the transaction ends.    *)
(* Sequences (bigserial) are not transactional.                            *)
(*                                                                         *)
(* The owner column recipes.user_id belongs to the authentication layer    *)
(* and is neither written nor read by the code modelled here; it is left   *)
(* out of the recipes rows.                                                *)
(***************************************************************************)
EXTENDS Integers, Sequences, FiniteSets, TLC

\* Concurrent callers (one request worker each).
Procs == {"p1", "p2"}

\* Bounds of the model: number of Insert and Update calls made in a run, for
\* one caller alone, for two concurrent writers, for a writer beside a
\* reader, and for two readers.
MaxWrites == 3
WritersWrites == 3
ReaderWrites == 2
ReadsWrites == 2
ListWrites == 3
SortWrites == 2
CodecWrites == 2
MaxParts == 2
HangWrites == 2
ChecksWrites == 2
ResolveWrites == 2
PatchWrites == 3
CycleWrites == 2
PairsWrites == 2
PagesWrites == 2
Pages == 2
MaxPage == 3
MaxPageSize == 2

\* SQL NULL and a present value.
Null == <<>>
Some(v) == <<v>>

\* A nil slice of entries or steps and a nil slice of strings (the zero value
\* of a slice field): distinct from every list, the empty one included.
NilEntries == <<[nil |-> TRUE]>>
NilNames == <<"nil">>

Tables == {"recipes", "ingredients", "equipment", "recipe_ingredients",
           "recipe_equipment", "recipe_instructions", "recipe_images",
           "recipe_instruction_images"}

EmptyTables == [k \in Tables |-> {}]

\* Collation order of the names used in the model (ORDER BY name).
NameOrder == <<"oil", "pan", "pot", "salt">>
Collate(n) == CHOOSE i \in 1..Len(NameOrder) : NameOrder[i] = n

Range(s) == {s[i] : i \in 1..Len(s)}

\* All orderings of the finite set S that are ascending in Key.
Ordered(S, Key(_)) ==
    {f \in [1..Cardinality(S) -> S] :
        /\ \A i, j \in 1..Cardinality(S) : i # j => f[i] # f[j]
        /\ \A i \in 1..Cardinality(S) - 1 : Key(f[i]) <= Key(f[i + 1])}

(***************************************************************************)
(* Inputs: the Recipe values callers pass to Insert and Update.            *)
(***************************************************************************)
Salt == [ID |-> 0, Ingredient |-> "salt", Amount |-> "1", Unit |-> "tsp", Optional |-> FALSE]
Oil == [ID |-> 0, Ingredient |-> "oil", Amount |-> "2", Unit |-> "tbsp", Optional |-> TRUE]

Chop == [ID |-> 0, StepNumber |-> 1, Text |-> "chop", Notes |-> "", ImageURLs |-> <<"a.png", "b.png">>]
Boil == [ID |-> 0, StepNumber |-> 2, Text |-> "boil", Notes |-> "slow", ImageURLs |-> <<>>]
Mix == [ID |-> 0, StepNumber |-> 1, Text |-> "mix", Notes |-> "", ImageURLs |-> <<"c.png">>]

\* A recipe without children, timings or image.
Plain ==
    [Name |-> "Stew", Description |-> "", Notes |-> "", SourceURL |-> "",
     DisplayURL |-> "", PrepTime |-> 0, ActiveTime |-> 0, Servings |-> 0,
     Public |-> FALSE, Ingredients |-> <<>>, RequiredEquipment |-> <<>>,
     Instructions |-> <<>>]

\* Children given in name / step order, zero timings.
Salty ==
    [Plain EXCEPT !.Ingredients = <<Salt>>, !.RequiredEquipment = <<"pan">>,
                  !.Instructions = <<Mix>>, !.Servings = 2]

\* Children given out of name / step order, timings, main image, public.
Full ==
    [Name |-> "Soup", Description |-> "d", Notes |-> "n", SourceURL |-> "s",
     DisplayURL |-> "m.png", PrepTime |-> 2000, ActiveTime |-> 0, Servings |-> 4,
     Public |-> TRUE, Ingredients |-> <<Salt, Oil>>,
     RequiredEquipment |-> <<"pot", "pan">>, Instructions |-> <<Boil, Chop>>]

\* The same ingredient named twice.
Twice == [Salty EXCEPT !.Ingredients = <<Salt, Salt>>, !.Instructions = <<>>]

Inputs == {Plain, Salty, Full, Twice}

\* A prep time below one microsecond.
Quick == [Plain EXCEPT !.PrepTime = 100]

\* Negative servings, a negative prep time of whole microseconds, and a
\* negative active time above minus half a microsecond.
Fewer == [Plain EXCEPT !.Servings = -1]
Back == [Plain EXCEPT !.PrepTime = -2000]
Blink == [Plain EXCEPT !.ActiveTime = -100]

\* A second name, no children, timings or image.
Broth == [Plain EXCEPT !.Name = "Soup"]

\* The same two ingredients, named in opposite orders.
Brine == [Salty EXCEPT !.Ingredients = <<Salt, Oil>>]
Oily == [Salty EXCEPT !.Ingredients = <<Oil, Salt>>]

\* The same equipment named twice.
Pans == [Salty EXCEPT !.RequiredEquipment = <<"pan", "pan">>]

\* Two steps that share a step number.
Stir == [ID |-> 0, StepNumber |-> 1, Text |-> "stir", Notes |-> "", ImageURLs |-> <<>>]

Tied == [Plain EXCEPT !.Instructions = <<Mix, Stir>>]

\* Children given out of name / step order, no timings.
Mixed ==
    [Plain EXCEPT !.Ingredients = <<Salt, Oil>>, !.RequiredEquipment = <<"pot", "pan">>,
                  !.Instructions = <<Boil, Chop>>]

\* The caller's *Recipe before the call: store-assigned fields still zero.
NewRecipe(r) ==
    [ID |-> 0, CreatedAt |-> 0, Version |-> 0, Name |-> r.Name,
     Description |-> r.Description, Notes |-> r.Notes, SourceURL |-> r.SourceURL,
     DisplayURL |-> r.DisplayURL, PrepTime |-> r.PrepTime, ActiveTime |-> r.ActiveTime,
     Servings |-> r.Servings, Public |-> r.Public, Ingredients |-> r.Ingredients,
     RequiredEquipment |-> r.RequiredEquipment, Instructions |-> r.Instructions]

NoRecipe == NewRecipe(Plain)

(***************************************************************************)
(* Value conversions on the way to the store.                              *)
(***************************************************************************)
\* nilIfZero: the zero value is written as NULL.
nilIfZero(v) == IF v = 0 THEN Null ELSE Some(v)

\* A zero duration formatted like any other: "0.000000 seconds".
durationToIntervalNoNil(d) ==
    IF d >= 0 THEN Some((d + 500) \div 1000)
    ELSE Some(0 - ((500 - d) \div 1000))

\* durationToInterval: zero is written as NULL; any other duration (in ns) is
\* formatted "%f seconds", six decimals, which the store reads as an interval
\* of whole microseconds.
durationToInterval(d) ==
    IF d = 0 THEN Null
    ELSE IF d > 0 THEN Some((d + 500) \div 1000)
    ELSE Some(0 - ((500 - d) \div 1000))

(***************************************************************************)
(* Duration as JSON text: MarshalJSON and UnmarshalJSON.                   *)
(***************************************************************************)
\* A duration text is an optional '-' and a run of number-unit parts; the
\* unit "" stands for a number without unit, "x" for a unit that is none.
\* Durations are whole seconds.
Parts ==
    {[n |-> 0, unit |-> ""], [n |-> 30, unit |-> ""], [n |-> 1, unit |-> "h"],
     [n |-> 30, unit |-> "m"], [n |-> 30, unit |-> "s"], [n |-> 1, unit |-> "x"]}

Texts ==
    [neg : BOOLEAN,
     parts : UNION {[1..k -> Parts] : k \in 0..MaxParts}]

\* The JSON values offered to UnmarshalJSON: strings, and a number, a
\* boolean, null and bytes that are no JSON.
JSONValues ==
    {[kind |-> "string", text |-> t] : t \in Texts}
    \cup {[kind |-> k, text |-> [neg |-> FALSE, parts |-> <<>>]] :
              k \in {"number", "bool", "null", "invalid"}}

NoJSON == [kind |-> "none", text |-> [neg |-> FALSE, parts |-> <<>>]]

unitMap == ("h" :> 3600) @@ ("m" :> 60) @@ ("s" :> 1)

RECURSIVE SumParts(_)
SumParts(ps) ==
    IF Len(ps) = 0 THEN 0 ELSE ps[1].n * unitMap[ps[1].unit] + SumParts(Tail(ps))

\* time.ParseDuration: "0" is zero; otherwise at least one part, each with a
\* known unit; the parts add up, the sign applies to the sum.
ParseOK(t) ==
    \/ t.parts = <<[n |-> 0, unit |-> ""]>>
    \/ Len(t.parts) > 0 /\ \A k \in DOMAIN t.parts : t.parts[k].unit \in DOMAIN unitMap

ParseDuration(t) ==
    IF t.parts = <<[n |-> 0, unit |-> ""]>> THEN 0
    ELSE IF t.neg THEN 0 - SumParts(t.parts) ELSE SumParts(t.parts)

\* time.Duration.String: "0s" for zero, otherwise hours, minutes and seconds
\* from the first unit that is not zero on, "-" in front when negative.
String(d) ==
    LET u == IF d < 0 THEN 0 - d ELSE d
        h == [n |-> u \div 3600, unit |-> "h"]
        m == [n |-> (u \div 60) % 60, unit |-> "m"]
        sec == [n |-> u % 60, unit |-> "s"]
    IN  [neg |-> d < 0,
         parts |-> IF h.n > 0 THEN <<h, m, sec>>
                   ELSE IF m.n > 0 THEN <<m, sec>>
                   ELSE <<sec>>]

VARIABLES
    db,      \* committed rows, per table
    seq,     \* next value of each bigserial sequence
    pc,      \* per caller: position in its current call
    rcp,     \* per caller: the Recipe value it passed in (Insert, Update) or is building (Get)
    tx,      \* per caller: its open transaction
    pos,     \* per caller: index of the next child entry / step to process
    ret,     \* per caller: outcome of its last finished call
    call,    \* per caller: operation and arguments of its current / last call
    nCalls,  \* Insert and Update calls made
    lim,     \* limits of the run: Insert and Update calls, inputs and queries offered
    last,    \* per recipe id: input of its last committed write, versions carried by its committed updates, whether deleted
    snaps,   \* per caller in Get: the committed aggregates of the recipe since its first query
    listing, \* per caller: arguments and result of its GetAll, nil outside GetAll
    codec,   \* a Duration field, the JSON last parsed into or serialized from it
    store,   \* "up" while the store answers statements, "down" once it has stopped
    req      \* per caller: the PATCH request its handler is serving, if any

vars ==
    <<db, seq, pc, rcp, tx, pos, ret, call, nCalls, lim, last, snaps, listing, codec,
      store, req>>

NoTx == [put |-> EmptyTables, del |-> EmptyTables, locks |-> {}]

\* What an open transaction sees.
View(d, t) == [k \in Tables |-> (d[k] \ t.del[k]) \cup t.put[k]]

TxInsert(t, k, rows) == [t EXCEPT !.put[k] = @ \cup rows]

TxDelete(d, t, k, rows) ==
    [t EXCEPT !.put[k] = @ \ rows, !.del[k] = @ \cup (rows \cap d[k])]

(***************************************************************************)
(* Reading: the queries of Get.                                            *)
(***************************************************************************)
\* Mutant: the WHERE clause is left out.
RecipeRowsAnyID(d, id) == d.recipes

\* SELECT ... FROM recipes WHERE id = $1
RecipeRows(d, id) == {r \in d.recipes : r.id = id}

\* Scanning an interval column into sql.NullInt64 succeeds only for NULL: the
\* driver hands a non-NULL interval over as text ("00:00:02"), which does not
\* convert to an integer.
ScanFails(row) == row.prep_time # Null \/ row.active_time # Null

\* The Recipe value after the first query of Get: scalar columns of the row,
\* NULL read as the zero value; every other field still has its zero value,
\* the collections being nil slices.
ScanRecipe(row) ==
    [ID |-> row.id, CreatedAt |-> row.created_at, Version |-> row.version,
     Name |-> row.name, Description |-> row.description, Notes |-> row.notes,
     SourceURL |-> row.source_url, DisplayURL |-> "",
     PrepTime |-> IF row.prep_time = Null THEN 0 ELSE row.prep_time[1],
     ActiveTime |-> IF row.active_time = Null THEN 0 ELSE row.active_time[1],
     Servings |-> IF row.servings = Null THEN 0 ELSE row.servings[1],
     Public |-> FALSE, Ingredients |-> NilEntries, RequiredEquipment |-> NilNames,
     Instructions |-> NilEntries]

\* Mutant: the query without ORDER BY.
IngredientKeyNone(e) == 0

IngredientKey(e) == Collate(e.Ingredient)

\* ingredients JOIN recipe_ingredients WHERE recipe_id = id ORDER BY name
QueryIngredients(d, id) ==
    Ordered({[ID |-> i.id, Ingredient |-> i.name, Amount |-> ri.quantity,
              Unit |-> ri.unit, Optional |-> ri.optional] :
                <<i, ri>> \in {x \in d.ingredients \X d.recipe_ingredients :
                                  x[1].id = x[2].ingredient_id /\ x[2].recipe_id = id}},
            IngredientKey)

\* Result rows of equipment JOIN recipe_equipment WHERE recipe_id = id.
EquipmentRows(d, id) ==
    {x \in d.equipment \X d.recipe_equipment :
        x[1].id = x[2].equipment_id /\ x[2].recipe_id = id}

EquipmentKey(x) == Collate(x[1].name)

\* Mutant: the list starts as a nil slice (var list []string) and is only
\* appended to.
QueryEquipmentNil(d, id) ==
    IF EquipmentRows(d, id) = {}
    THEN {NilNames}
    ELSE {[k \in DOMAIN f |-> f[k][1].name] : f \in Ordered(EquipmentRows(d, id), EquipmentKey)}

\* ... ORDER BY name, appended to an empty list of names ([]string{})
QueryEquipment(d, id) ==
    {[k \in DOMAIN f |-> f[k][1].name] : f \in Ordered(EquipmentRows(d, id), EquipmentKey)}

StepKey(s) == s.StepNumber

\* recipe_instructions WHERE recipe_id = id ORDER BY step_number; rows with
\* equal step numbers come in any order.  A scanned step has no image list yet.
QueryInstructions(d, id) ==
    Ordered({[ID |-> s.id, StepNumber |-> s.step_number, Text |-> s.instruction,
              Notes |-> s.notes, ImageURLs |-> NilNames] :
                s \in {x \in d.recipe_instructions : x.recipe_id = id}},
            StepKey)

ImageKey(img) == img.id

\* recipe_images JOIN recipe_instruction_images WHERE instruction_id = sid
\* ORDER BY image id (the primary key: one order)
QueryStepImages(d, sid) ==
    LET f == CHOOSE g \in Ordered({img \in d.recipe_images :
                                     \E l \in d.recipe_instruction_images :
                                         l.instruction_id = sid /\ l.image_id = img.id},
                                  ImageKey) : TRUE
    IN  [k \in DOMAIN f |-> f[k].image_url]

\* recipe_images WHERE recipe_id = id AND image_type = 'main' LIMIT 1; no row
\* leaves DisplayURL at its zero value.
QueryMain(d, id) ==
    LET urls == {img.image_url : img \in {x \in d.recipe_images :
                                    x.recipe_id = id /\ x.image_type = "main"}}
    IN  IF urls = {} THEN {""} ELSE urls

\* Every value one Get(id) can return when all of its queries see the same
\* committed state d.
Aggregates(d, id) ==
    {[ScanRecipe(x[1]) EXCEPT
        !.Ingredients = x[2], !.RequiredEquipment = x[3],
        !.Instructions = [k \in DOMAIN x[4] |->
                            [x[4][k] EXCEPT !.ImageURLs = QueryStepImages(d, x[4][k].ID)]],
        !.DisplayURL = x[5]] :
        x \in RecipeRows(d, id) \X QueryIngredients(d, id) \X QueryEquipment(d, id)
              \X QueryInstructions(d, id) \X QueryMain(d, id)}

(***************************************************************************)
(* Reading: the query of GetAll.                                           *)
(***************************************************************************)
\* The letters of the texts used in the model (names and filter substrings).
Chars ==
    ("" :> <<>>) @@ ("Stew" :> <<"S", "t", "e", "w">>) @@ ("Soup" :> <<"S", "o", "u", "p">>)
    @@ ("salt" :> <<"s", "a", "l", "t">>) @@ ("oil" :> <<"o", "i", "l">>)
    @@ ("pan" :> <<"p", "a", "n">>) @@ ("pot" :> <<"p", "o", "t">>)
    @@ ("st" :> <<"s", "t">>) @@ ("ou" :> <<"o", "u">>) @@ ("al" :> <<"a", "l">>)
    @@ ("pa" :> <<"p", "a">>) @@ ("_" :> <<"_">>)

\* Case folding of ILIKE (the one capital letter used in the model).
Fold(t) == [k \in DOMAIN t |-> IF t[k] = "S" THEN "s" ELSE t[k]]

Contains(t, sub) ==
    \E i \in 0..(Len(t) - Len(sub)) : SubSeq(t, i + 1, i + Len(sub)) = sub

\* LIKE: the text from position i on matches the pattern from position j on;
\* '%' stands for any run of letters, '_' for any one letter.
RECURSIVE Like(_, _, _, _)
Like(t, i, pat, j) ==
    IF j > Len(pat) THEN i > Len(t)
    ELSE IF pat[j] = "%" THEN \E k \in i..(Len(t) + 1) : Like(t, k, pat, j + 1)
    ELSE /\ i <= Len(t)
         /\ pat[j] = "_" \/ pat[j] = t[i]
         /\ Like(t, i + 1, pat, j + 1)

\* text ILIKE '%' || sub || '%', the letters of sub being part of the pattern
ILike(text, sub) == Like(Fold(Chars[text]), 1, <<"%">> \o Fold(Chars[sub]) \o <<"%">>, 1)

\* $n = 0 OR EXTRACT(EPOCH FROM col) <= $n / 1000000000.0: col in
\* microseconds, max in nanoseconds; a comparison with NULL is not true.
Within(col, max) == max = 0 \/ (col # Null /\ col[1] * 1000 <= max)

\* r.id IN (SELECT recipe_id FROM <junction> JOIN <reference table>
\* WHERE name ILIKE ANY(patterns)), added when the list is not empty.
UsesIngredient(d, id, subs) ==
    Len(subs) = 0 \/
    \E l \in d.recipe_ingredients, i \in d.ingredients :
        /\ l.recipe_id = id /\ l.ingredient_id = i.id
        /\ \E k \in DOMAIN subs : ILike(i.name, subs[k])

UsesEquipment(d, id, subs) ==
    Len(subs) = 0 \/
    \E l \in d.recipe_equipment, e \in d.equipment :
        /\ l.recipe_id = id /\ l.equipment_id = e.id
        /\ \E k \in DOMAIN subs : ILike(e.name, subs[k])

\* The CTE filtered_recipes.
FilteredRecipes(d, q) ==
    {r \in d.recipes :
        /\ q.name = "" \/ ILike(r.name, q.name)
        /\ Within(r.prep_time, q.prepTime)
        /\ Within(r.active_time, q.activeTime)
        /\ UsesIngredient(d, r.id, q.ingredients)
        /\ UsesEquipment(d, r.id, q.equipment)}

\* filtered_recipes LEFT JOIN recipe_images ON recipe_id AND image_type = 'main'
JoinMain(d, rows) ==
    UNION {LET main == {x \in d.recipe_images : x.recipe_id = r.id /\ x.image_type = "main"}
           IN  IF main = {} THEN {[row |-> r, display_url |-> Null]}
               ELSE {[row |-> r, display_url |-> Some(x.image_url)] : x \in main} :
           r \in rows}

\* filters.Sort spelled as an optional leading '-' and the rest.
SortChars ==
    ("" :> <<>>) @@ ("-" :> <<"-">>) @@ ("id" :> <<"id">>) @@ ("-id" :> <<"-", "id">>)
    @@ ("name" :> <<"name">>) @@ ("-name" :> <<"-", "name">>)
    @@ ("prep_time" :> <<"prep_time">>) @@ ("-prep_time" :> <<"-", "prep_time">>)
    @@ ("active_time" :> <<"active_time">>) @@ ("-active_time" :> <<"-", "active_time">>)
    @@ ("x" :> <<"x">>) @@ ("-x" :> <<"-", "x">>)

sortColumns == {"id", "name", "prep_time", "active_time"}

\* A column outside sortColumns gives ORDER BY fr.id and keeps the direction.
OrderByKeepsDirection(sort) ==
    LET c == SortChars[sort]
        desc == Len(c) > 0 /\ c[1] = "-"
        col == IF desc THEN Tail(c) ELSE c
    IN  IF Len(col) = 1 /\ col[1] \in sortColumns
        THEN [column |-> col[1], desc |-> desc]
        ELSE [column |-> "id", desc |-> desc]

\* The ORDER BY clause: column and direction; a column outside sortColumns
\* gives ORDER BY fr.id ASC.
OrderBy(sort) ==
    LET c == SortChars[sort]
        desc == Len(c) > 0 /\ c[1] = "-"
        col == IF desc THEN Tail(c) ELSE c
    IN  IF Len(col) = 1 /\ col[1] \in sortColumns
        THEN [column |-> col[1], desc |-> desc]
        ELSE [column |-> "id", desc |-> FALSE]

\* Collation order of the recipe names used in the model.
TitleOrder == <<"Soup", "Stew">>

\* The sort value of a row, NULL or a number.
SortValue(r, column) ==
    CASE column = "id" -> Some(r.id)
      [] column = "name" -> Some(CHOOSE i \in 1..Len(TitleOrder) : TitleOrder[i] = r.name)
      [] column = "prep_time" -> r.prep_time
      [] column = "active_time" -> r.active_time

\* x sorts strictly before y ascending; NULL sorts after every value.
Less(x, y) == x # Null /\ (y = Null \/ x[1] < y[1])

\* Every order in which rows ordered by the column and direction o may come:
\* rows whose sort values are equal come in any order.
OrdersBy(rows, o) ==
    LET n == Cardinality(rows)
        Before(a, b) == IF o.desc
                        THEN Less(SortValue(b.row, o.column), SortValue(a.row, o.column))
                        ELSE Less(SortValue(a.row, o.column), SortValue(b.row, o.column))
    IN  {f \in [1..n -> rows] :
            /\ \A i, j \in 1..n : i # j => f[i] # f[j]
            /\ \A i, j \in 1..n : i < j => ~Before(f[j], f[i])}

ListOrders(rows, sort) == OrdersBy(rows, OrderBy(sort))

\* LIMIT pageSize OFFSET (page - 1) * pageSize
Window(f, page, pageSize) ==
    LET first == (page - 1) * pageSize + 1
        lastRow == IF page * pageSize < Len(f) THEN page * pageSize ELSE Len(f)
    IN  IF first > Len(f) THEN <<>> ELSE SubSeq(f, first, lastRow)

\* The Recipe scanned from one returned row; fields the query does not select
\* keep their zero value.
ScanListed(x) ==
    [ID |-> x.row.id, CreatedAt |-> x.row.created_at, Version |-> x.row.version,
     Name |-> x.row.name, Description |-> x.row.description, Notes |-> "",
     SourceURL |-> "",
     DisplayURL |-> IF x.display_url = Null THEN "" ELSE x.display_url[1],
     PrepTime |-> IF x.row.prep_time = Null THEN 0 ELSE x.row.prep_time[1],
     ActiveTime |-> IF x.row.active_time = Null THEN 0 ELSE x.row.active_time[1],
     Servings |-> IF x.row.servings = Null THEN 0 ELSE x.row.servings[1],
     Public |-> FALSE, Ingredients |-> NilEntries, RequiredEquipment |-> NilNames,
     Instructions |-> NilEntries]

\* var recipes []*Recipe: without a returned row the list stays nil.
ScanRowsNil(w) == IF Len(w) = 0 THEN NilEntries ELSE [k \in DOMAIN w |-> ScanListed(w[k])]

\* recipes := []*Recipe{} and one append per returned row.
ScanRows(w) == [k \in DOMAIN w |-> ScanListed(w[k])]

\* totalRecords: COUNT(*) OVER() as scanned from the returned rows; with no
\* returned row it keeps its initial 0.
TotalRecords(rows, w) == IF Len(w) = 0 THEN 0 ELSE Cardinality(rows)

\* The zero Metadata returned beside an error.
NoMetadata ==
    [CurrentPage |-> 0, PageSize |-> 0, FirstPage |-> 0, LastPage |-> 0, TotalRecords |-> 0]

\* calculateMetadata: current page, page size, first page, last page (1 when
\* there are no records) and total records.
calculateMetadata(totalRecords, page, pageSize) ==
    [CurrentPage |-> page, PageSize |-> pageSize, FirstPage |-> 1,
     LastPage |-> IF totalRecords = 0 THEN 1
                  ELSE (totalRecords + pageSize - 1) \div pageSize,
     TotalRecords |-> totalRecords]

(***************************************************************************)
(* Writing: the statements of Insert, Update and Delete.                   *)
(***************************************************************************)
\* The recipes row written from the caller's Recipe.
RecipeRow(r, id, created, version) ==
    [id |-> id, created_at |-> created, name |-> r.Name,
     description |-> r.Description, notes |-> r.Notes, source_url |-> r.SourceURL,
     prep_time |-> durationToInterval(r.PrepTime),
     active_time |-> durationToInterval(r.ActiveTime),
     servings |-> nilIfZero(r.Servings), version |-> version]

\* CHECK (prep_time >= 0), CHECK (active_time >= 0), CHECK (servings > 0);
\* a CHECK passes on NULL.
CheckOK(row) ==
    /\ row.prep_time = Null \/ row.prep_time[1] >= 0
    /\ row.active_time = Null \/ row.active_time[1] >= 0
    /\ row.servings = Null \/ row.servings[1] > 0

\* Mutant: the version is left out of the WHERE clause.
MatchingAnyVersion(rows, id, version) == {x \in rows : x.id = id}

\* WHERE id = $8 AND version = $9
Matching(rows, id, version) == {x \in rows : x.id = id /\ x.version = version}

\* Mutant: the version is not incremented.
UpdatedRowSameVersion(old, r) == RecipeRow(r, old.id, old.created_at, old.version)

\* SET ..., created_at = NOW(), version = version + 1
UpdatedRowNow(old, r) == RecipeRow(r, old.id, nCalls, old.version + 1)

\* SET ..., version = version + 1 (id and created_at are not assigned)
UpdatedRow(old, r) == RecipeRow(r, old.id, old.created_at, old.version + 1)

\* Mutant: a plain INSERT without the ON CONFLICT clause on a table without
\* the UNIQUE constraint.
ResolveRefAlwaysNew(rows, n, fresh) == [id |-> fresh, name |-> n]

\* INSERT INTO <reference table> (name) VALUES (n) ON CONFLICT (name) DO UPDATE
\* SET name = EXCLUDED.name RETURNING id: the row named n afterwards.
ResolveRef(rows, n, fresh) ==
    IF \E x \in rows : x.name = n
    THEN CHOOSE x \in rows : x.name = n
    ELSE [id |-> fresh, name |-> n]

\* Mutant: the UPDATE does not wait for the row.
LockedByOtherNever(p, l) == FALSE

\* A lock another open transaction holds.
LockedByOther(p, l) == \E q \in Procs \ {p} : l \in tx[q].locks

RECURSIVE ImagesBefore(_, _)
\* Number of image URLs of the steps before step k.
ImagesBefore(steps, k) ==
    IF k <= 1 THEN 0 ELSE ImagesBefore(steps, k - 1) + Len(steps[k - 1].ImageURLs)

\* Rows written for the instruction steps and the display image of r: step k
\* takes the k-th instruction id from firstStep on, image ids are taken in
\* input order from firstImg on, the main image last.
InstructionRows(r, id, firstStep) ==
    {[id |-> firstStep + k - 1, recipe_id |-> id,
      step_number |-> r.Instructions[k].StepNumber,
      instruction |-> r.Instructions[k].Text, notes |-> r.Instructions[k].Notes] :
        k \in 1..Len(r.Instructions)}

StepImageSlots(r) ==
    {<<k, m>> \in (1..Len(r.Instructions)) \X (1..2) :
        m <= Len(r.Instructions[k].ImageURLs)}

StepImageRows(r, id, firstImg) ==
    {[id |-> firstImg + ImagesBefore(r.Instructions, s[1]) + s[2] - 1, recipe_id |-> id,
      image_url |-> r.Instructions[s[1]].ImageURLs[s[2]], image_type |-> "step"] :
        s \in StepImageSlots(r)}

StepImageLinks(r, firstStep, firstImg) ==
    {[instruction_id |-> firstStep + s[1] - 1,
      image_id |-> firstImg + ImagesBefore(r.Instructions, s[1]) + s[2] - 1] :
        s \in StepImageSlots(r)}

CountStepImages(r) == ImagesBefore(r.Instructions, Len(r.Instructions) + 1)

MainImageRows(r, id, firstImg) ==
    IF r.DisplayURL # ""
    THEN {[id |-> firstImg + CountStepImages(r), recipe_id |-> id,
           image_url |-> r.DisplayURL, image_type |-> "main"]}
    ELSE {}

\* Mutant: the DELETE of the junction rows without its WHERE clause.
DeleteChildrenOfAll(d, t, id) ==
    LET v == View(d, t)
        steps == {x \in v.recipe_instructions : x.recipe_id = id}
        t1 == TxDelete(d, t, "recipe_ingredients", v.recipe_ingredients)
        t2 == TxDelete(d, t1, "recipe_equipment", v.recipe_equipment)
        t3 == TxDelete(d, t2, "recipe_instructions", steps)
        t4 == TxDelete(d, t3, "recipe_instruction_images",
                       {l \in v.recipe_instruction_images :
                           \E x \in steps : l.instruction_id = x.id})
    IN  TxDelete(d, t4, "recipe_images",
                 {x \in v.recipe_images : x.recipe_id = id /\ x.image_type = "main"})

\* Mutant: Update without the DELETE of the main image.
DeleteChildrenKeepsMain(d, t, id) ==
    LET v == View(d, t)
        steps == {x \in v.recipe_instructions : x.recipe_id = id}
        t1 == TxDelete(d, t, "recipe_ingredients",
                       {x \in v.recipe_ingredients : x.recipe_id = id})
        t2 == TxDelete(d, t1, "recipe_equipment",
                       {x \in v.recipe_equipment : x.recipe_id = id})
        t3 == TxDelete(d, t2, "recipe_instructions", steps)
    IN  TxDelete(d, t3, "recipe_instruction_images",
                 {l \in v.recipe_instruction_images :
                     \E x \in steps : l.instruction_id = x.id})

\* The four DELETE statements of Update, with the cascade from
\* recipe_instructions to recipe_instruction_images.
DeleteChildren(d, t, id) ==
    LET v == View(d, t)
        steps == {x \in v.recipe_instructions : x.recipe_id = id}
        t1 == TxDelete(d, t, "recipe_ingredients",
                       {x \in v.recipe_ingredients : x.recipe_id = id})
        t2 == TxDelete(d, t1, "recipe_equipment",
                       {x \in v.recipe_equipment : x.recipe_id = id})
        t3 == TxDelete(d, t2, "recipe_instructions", steps)
        t4 == TxDelete(d, t3, "recipe_instruction_images",
                       {l \in v.recipe_instruction_images :
                           \E x \in steps : l.instruction_id = x.id})
    IN  TxDelete(d, t4, "recipe_images",
                 {x \in v.recipe_images : x.recipe_id = id /\ x.image_type = "main"})

\* Mutant: the DELETE removes nothing.
CascadeDeleteNothing(d, id) == d

\* Mutant: recipe_images without ON DELETE CASCADE.
CascadeDeleteKeepsImages(d, id) ==
    [d EXCEPT
        !.recipes = {x \in @ : x.id # id},
        !.recipe_ingredients = {x \in @ : x.recipe_id # id},
        !.recipe_equipment = {x \in @ : x.recipe_id # id},
        !.recipe_instructions = {x \in @ : x.recipe_id # id},
        !.recipe_instruction_images =
            {l \in @ : \A y \in d.recipe_instructions :
                          y.recipe_id = id => l.instruction_id # y.id}]

\* DELETE FROM recipes WHERE id = $1 with every ON DELETE CASCADE of the schema.
CascadeDelete(d, id) ==
    LET steps == {x.id : x \in {y \in d.recipe_instructions : y.recipe_id = id}}
        imgs == {x.id : x \in {y \in d.recipe_images : y.recipe_id = id}}
    IN  [d EXCEPT
            !.recipes = {x \in @ : x.id # id},
            !.recipe_ingredients = {x \in @ : x.recipe_id # id},
            !.recipe_equipment = {x \in @ : x.recipe_id # id},
            !.recipe_instructions = {x \in @ : x.recipe_id # id},
            !.recipe_images = {x \in @ : x.recipe_id # id},
            !.recipe_instruction_images =
                {l \in @ : l.instruction_id \notin steps /\ l.image_id \notin imgs}]

\* tx.Commit(): the transaction's rows become the committed rows.
Commit(d, t) == View(d, t)

\* Mutant: the reference rows are upserted outside the transaction.
RollbackKeepsRefs(d, t) ==
    [d EXCEPT !.ingredients = @ \cup t.put.ingredients,
              !.equipment = @ \cup t.put.equipment]

\* Mutant: the recipes row is written outside the transaction.
RollbackKeepsRecipe(d, t) ==
    [d EXCEPT !.recipes = (@ \ t.del.recipes) \cup t.put.recipes]

\* tx.Rollback() (deferred in Insert and Update): nothing of the transaction stays.
Rollback(d, t) == d

(***************************************************************************)
(* The callers.                                                            *)
(***************************************************************************)
\* Outcome of a call: "error" is an error the statements of the call produce
\* by themselves (constraint violation, scan error), "failed" one the store
\* raises from outside (connection lost, timeout, deadlock victim).
Statuses == {"none", "ok", "NotFound", "EditConflict", "error", "failed"}

NoCall == [op |-> "none", id |-> 0, version |-> 0, stored |-> 0]

NoLast == [given |-> NoRecipe, updates |-> <<>>, deleted |-> FALSE]

\* What is known of a recipe id after its Delete: nothing stored, deleted.
Gone == [NoLast EXCEPT !.deleted = TRUE]

\* The aggregates of recipe id in d, added for every caller that is reading id.
Snapshot(d, id) ==
    [q \in Procs |->
        IF call[q].op = "Get" /\ call[q].id = id /\ pc[q] \notin {"idle", "get_recipe"}
        THEN snaps[q] \cup Aggregates(d, id)
        ELSE snaps[q]]

\* created_at DEFAULT NOW(): the time of the write call, counted in calls.
Clock == nCalls

\* Version stored for recipe id, 0 when there is no such row.
StoredVersion(d, id) ==
    IF RecipeRows(d, id) = {} THEN 0 ELSE (CHOOSE x \in RecipeRows(d, id) : TRUE).version

AfterIngredients(r) == IF Len(r.RequiredEquipment) > 0 THEN "equipment" ELSE "instructions"

AfterRecipe(r) == IF Len(r.Ingredients) > 0 THEN "ingredients" ELSE AfterIngredients(r)

\* The arguments of GetAll: no filter, first page of one, default order.
NoQuery ==
    [name |-> "", ingredients |-> <<>>, equipment |-> <<>>, prepTime |-> 0,
     activeTime |-> 0, Page |-> 1, PageSize |-> 1, Sort |-> "id"]

\* The arguments GetAll is called with: every page and page size with and
\* without a name filter, and one query per remaining filter and order.
Queries ==
    {[NoQuery EXCEPT !.name = n, !.Page = pg, !.PageSize = sz] :
        n \in {"", "st"}, pg \in 1..MaxPage, sz \in 1..MaxPageSize}
    \cup {[NoQuery EXCEPT !.Sort = "-name", !.PageSize = MaxPageSize],
          [NoQuery EXCEPT !.name = "_", !.PageSize = MaxPageSize],
          [NoQuery EXCEPT !.ingredients = <<"al">>, !.PageSize = MaxPageSize],
          [NoQuery EXCEPT !.equipment = <<"pa">>, !.PageSize = MaxPageSize],
          [NoQuery EXCEPT !.prepTime = 3000, !.PageSize = MaxPageSize],
          [NoQuery EXCEPT !.activeTime = 3000, !.PageSize = MaxPageSize]}

\* What GetAll returned: nil and the zero Metadata until it returns a list.
NoListing == [query |-> NoQuery, recipes |-> NilEntries, metadata |-> NoMetadata]

\* The arguments GetAll is called with where the order is looked at: every
\* sort value, page and page size, no filter.
SortQueries ==
    {[NoQuery EXCEPT !.Page = pg, !.PageSize = sz, !.Sort = so] :
        pg \in 1..MaxPage, sz \in 1..MaxPageSize, so \in DOMAIN SortChars}

\* The arguments GetAll is called with where pages are put together: pages of
\* one recipe, by id and by columns on which recipes tie.
PageQueries ==
    {[NoQuery EXCEPT !.Page = pg, !.Sort = so] :
        pg \in 1..Pages, so \in {"id", "name", "-prep_time", "active_time"}}

\* A zero Duration that no JSON has touched.
NoCodec == [d |-> 0, b |-> NoJSON, err |-> "none", op |-> "none"]

\* The body of a PATCH request: every field absent (nil pointer or nil slice
\* after decoding).
NoPatch ==
    [Name |-> Null, Description |-> Null, Ingredients |-> Null,
     RequiredEquipment |-> Null, Instructions |-> Null, Notes |-> Null,
     DisplayURL |-> Null, SourceURL |-> Null, PrepTime |-> Null, ActiveTime |-> Null,
     Servings |-> Null]

\* The request bodies offered: a new name, a new ingredient list, empty lists,
\* a preparation time.
Rename == [NoPatch EXCEPT !.Name = Some("Soup")]
Reoil == [NoPatch EXCEPT !.Ingredients = Some(<<Oil>>)]
Clear == [NoPatch EXCEPT !.Ingredients = Some(<<>>), !.Instructions = Some(<<>>)]
Retime == [NoPatch EXCEPT !.PrepTime = Some(2000)]
Patches == {Rename, Reoil, Clear, Retime}

\* No PATCH request being served.
NoReq == [stage |-> "none", id |-> 0, input |-> NoPatch, got |-> NoRecipe,
          response |-> "none"]

\* The state after construction: an empty store, nobody calling.
StartWith(writes, inputs, queries) ==
    /\ lim = [writes |-> writes, inputs |-> inputs, queries |-> queries]
    /\ db = EmptyTables
    /\ seq = [recipes |-> 1, ingredients |-> 1, equipment |-> 1,
              instructions |-> 1, images |-> 1]
    /\ pc = [p \in Procs |-> "idle"]
    /\ rcp = [p \in Procs |-> NoRecipe]
    /\ tx = [p \in Procs |-> NoTx]
    /\ pos = [p \in Procs |-> 0]
    /\ ret = [p \in Procs |-> "none"]
    /\ call = [p \in Procs |-> NoCall]
    /\ nCalls = 0
    /\ last = [id \in 1..writes |-> NoLast]
    /\ snaps = [p \in Procs |-> {}]
    /\ listing = [p \in Procs |-> NoListing]
    /\ codec = NoCodec
    /\ store = "up"
    /\ req = [p \in Procs |-> NoReq]

Start(writes, inputs) == StartWith(writes, inputs, Queries)

Init == Start(MaxWrites, Inputs)

InitWriters == Start(WritersWrites, {Salty, Full})

InitReader == Start(ReaderWrites, {Plain, Salty})

InitReads == Start(ReadsWrites, {Tied, Mixed})

InitList == Start(ListWrites, {Plain, Salty, Full})

InitCodec ==
    StartWith(CodecWrites, {Plain, Salty, Full, Quick},
              {[NoQuery EXCEPT !.PageSize = MaxPageSize]})

InitText == StartWith(0, {}, {})

InitChecks == StartWith(ChecksWrites, {Salty, Fewer, Back, Blink}, {NoQuery})

InitHang == StartWith(HangWrites, {Salty}, {NoQuery})

InitResolve == StartWith(ResolveWrites, {Salty, Full}, {NoQuery})

InitPatch == StartWith(PatchWrites, {Salty}, {NoQuery})

InitCycle == StartWith(CycleWrites, {Brine, Oily}, {NoQuery})

InitPairs == StartWith(PairsWrites, {Salty, Twice, Pans}, {NoQuery})

InitPages == StartWith(PagesWrites, {Plain, Salty}, PageQueries)

InitSort == StartWith(SortWrites, {Plain, Broth, Full}, SortQueries)

\* The call of p ends with the given status; an open transaction is rolled back.
Return(p, status) ==
    /\ pc' = [pc EXCEPT ![p] = "idle"]
    /\ ret' = [ret EXCEPT ![p] = status]
    /\ db' = Rollback(db, tx[p])
    /\ tx' = [tx EXCEPT ![p] = NoTx]
    /\ pos' = [pos EXCEPT ![p] = 0]

\* Insert is called with a Recipe that has no ID yet.
CallInsert(p) ==
    /\ pc[p] = "idle"
    /\ req[p].stage # "get"
    /\ nCalls < lim.writes
    /\ \E r \in lim.inputs :
        /\ rcp' = [rcp EXCEPT ![p] = NewRecipe(r)]
        /\ call' = [call EXCEPT ![p] = [op |-> "Insert", id |-> 0, version |-> 0, stored |-> 0]]
    /\ pc' = [pc EXCEPT ![p] = "ins_recipe"]
    /\ ret' = [ret EXCEPT ![p] = "none"]
    /\ nCalls' = nCalls + 1
    /\ snaps' = [snaps EXCEPT ![p] = {}]
    /\ listing' = [listing EXCEPT ![p] = NoListing]
    /\ req' = [req EXCEPT ![p] = NoReq]
    /\ UNCHANGED <<db, seq, tx, pos, lim, last, codec, store>>

\* Mutant: the id is one more than the largest id stored.
NewIDAfterStored(d, next) ==
    IF d.recipes = {} THEN 1
    ELSE 1 + (CHOOSE i \in {x.id : x \in d.recipes} : \A x \in d.recipes : x.id <= i)

\* id bigserial PRIMARY KEY: the INSERT names no id, the row takes the next
\* value of the sequence.
NewID(d, next) == next

\* Begin; INSERT INTO recipes ... RETURNING id, created_at, version.
InsertRecipe(p) ==
    /\ pc[p] = "ins_recipe"
    /\ store = "up"
    /\ LET row == RecipeRow(rcp[p], NewID(db, seq.recipes), Clock, 1)
       IN  /\ seq' = [seq EXCEPT !.recipes = @ + 1]
           /\ IF CheckOK(row)
              THEN /\ tx' = [tx EXCEPT ![p] = TxInsert(@, "recipes", {row})]
                   /\ rcp' = [rcp EXCEPT ![p].ID = row.id,
                                         ![p].CreatedAt = row.created_at,
                                         ![p].Version = row.version]
                   /\ pc' = [pc EXCEPT ![p] = AfterRecipe(rcp[p])]
                   /\ pos' = [pos EXCEPT ![p] = 1]
                   /\ UNCHANGED <<db, ret>>
              ELSE /\ Return(p, "error")
                   /\ UNCHANGED rcp
    /\ UNCHANGED <<call, nCalls, lim, last, snaps, listing, codec, store, req>>

\* Update is called with a full Recipe carrying an ID and the version last seen.
CallUpdate(p) ==
    /\ pc[p] = "idle"
    /\ req[p].stage # "get"
    /\ nCalls < lim.writes
    /\ \E r \in lim.inputs, id \in 1..lim.writes - 1, v \in 1..lim.writes - 1 :
        /\ rcp' = [rcp EXCEPT ![p] = [NewRecipe(r) EXCEPT !.ID = id, !.Version = v]]
        /\ call' = [call EXCEPT ![p] = [op |-> "Update", id |-> id, version |-> v,
                                        stored |-> StoredVersion(db, id)]]
    /\ pc' = [pc EXCEPT ![p] = "upd_recipe"]
    /\ ret' = [ret EXCEPT ![p] = "none"]
    /\ nCalls' = nCalls + 1
    /\ snaps' = [snaps EXCEPT ![p] = {}]
    /\ listing' = [listing EXCEPT ![p] = NoListing]
    /\ req' = [req EXCEPT ![p] = NoReq]
    /\ UNCHANGED <<db, seq, tx, pos, lim, last, codec, store>>

\* Begin; UPDATE recipes SET ..., version = version + 1 WHERE id AND version
\* RETURNING version.  The statement waits while another transaction holds
\* the row; no row means ErrEditConflict.
UpdateRecipe(p) ==
    /\ pc[p] = "upd_recipe"
    /\ store = "up"
    /\ ~LockedByOther(p, <<"recipes", rcp[p].ID>>)
    /\ LET hit == Matching(View(db, tx[p]).recipes, rcp[p].ID, rcp[p].Version)
           old == CHOOSE x \in hit : TRUE
           new == UpdatedRow(old, rcp[p])
       IN  IF hit = {}
           THEN /\ Return(p, "EditConflict")
                /\ UNCHANGED rcp
           ELSE IF ~CheckOK(new)
           THEN /\ Return(p, "error")
                /\ UNCHANGED rcp
           ELSE /\ tx' = [tx EXCEPT ![p] =
                            [TxInsert(TxDelete(db, @, "recipes", {old}), "recipes", {new})
                                EXCEPT !.locks = @ \cup {<<"recipes", old.id>>}]]
                /\ rcp' = [rcp EXCEPT ![p].Version = new.version]
                /\ pc' = [pc EXCEPT ![p] = "upd_delete"]
                /\ UNCHANGED <<db, ret, pos>>
    /\ UNCHANGED <<seq, call, nCalls, lim, last, snaps, listing, codec, store, req>>

\* DELETE FROM recipe_ingredients / recipe_equipment / recipe_instructions /
\* recipe_images (main) WHERE recipe_id = id.
DeleteOld(p) ==
    /\ pc[p] = "upd_delete"
    /\ store = "up"
    /\ tx' = [tx EXCEPT ![p] = DeleteChildren(db, @, rcp[p].ID)]
    /\ pc' = [pc EXCEPT ![p] = AfterRecipe(rcp[p])]
    /\ pos' = [pos EXCEPT ![p] = 1]
    /\ UNCHANGED <<db, seq, rcp, ret, call, nCalls, lim, last, snaps, listing, codec, store, req>>

\* Mutant: recipe_ingredients without its primary key.
PairStoredNever(rows, row) == FALSE

\* PRIMARY KEY (recipe_id, ingredient_id): a row of the pair is there already.
PairStored(rows, row) ==
    \E x \in rows : x.recipe_id = row.recipe_id /\ x.ingredient_id = row.ingredient_id

\* One ingredient entry: upsert the name, then insert the junction row.  The
\* upsert waits while another transaction holds the name; a new reference row
\* takes the next sequence value; a second junction row for the same
\* (recipe, ingredient) violates the primary key.
UpsertIngredient(p) ==
    /\ pc[p] = "ingredients"
    /\ store = "up"
    /\ LET e == rcp[p].Ingredients[pos[p]]
           v == View(db, tx[p])
           ref == ResolveRef(v.ingredients, e.Ingredient, seq.ingredients)
           row == [recipe_id |-> rcp[p].ID, ingredient_id |-> ref.id,
                   quantity |-> e.Amount, unit |-> e.Unit, optional |-> e.Optional]
       IN  /\ ~LockedByOther(p, <<"ingredients", e.Ingredient>>)
           /\ seq' = [seq EXCEPT !.ingredients = IF ref \in v.ingredients THEN @ ELSE @ + 1]
           /\ IF PairStored(v.recipe_ingredients, row)
              THEN Return(p, "error")
              ELSE /\ tx' = [tx EXCEPT ![p] =
                               [TxInsert(TxInsert(@, "ingredients", {ref} \ db.ingredients),
                                         "recipe_ingredients", {row})
                                   EXCEPT !.locks = @ \cup {<<"ingredients", e.Ingredient>>}]]
                   /\ IF pos[p] < Len(rcp[p].Ingredients)
                      THEN /\ pos' = [pos EXCEPT ![p] = @ + 1]
                           /\ UNCHANGED pc
                      ELSE /\ pos' = [pos EXCEPT ![p] = 1]
                           /\ pc' = [pc EXCEPT ![p] = AfterIngredients(rcp[p])]
                   /\ UNCHANGED <<db, ret>>
    /\ UNCHANGED <<rcp, call, nCalls, lim, last, snaps, listing, codec, store, req>>

\* One equipment name: the same upsert, then the junction row.
UpsertEquipment(p) ==
    /\ pc[p] = "equipment"
    /\ store = "up"
    /\ LET n == rcp[p].RequiredEquipment[pos[p]]
           v == View(db, tx[p])
           ref == ResolveRef(v.equipment, n, seq.equipment)
           row == [recipe_id |-> rcp[p].ID, equipment_id |-> ref.id]
       IN  /\ ~LockedByOther(p, <<"equipment", n>>)
           /\ seq' = [seq EXCEPT !.equipment = IF ref \in v.equipment THEN @ ELSE @ + 1]
           /\ IF row \in v.recipe_equipment
              THEN Return(p, "error")
              ELSE /\ tx' = [tx EXCEPT ![p] =
                               [TxInsert(TxInsert(@, "equipment", {ref} \ db.equipment),
                                         "recipe_equipment", {row})
                                   EXCEPT !.locks = @ \cup {<<"equipment", n>>}]]
                   /\ IF pos[p] < Len(rcp[p].RequiredEquipment)
                      THEN /\ pos' = [pos EXCEPT ![p] = @ + 1]
                           /\ UNCHANGED pc
                      ELSE /\ pos' = [pos EXCEPT ![p] = 1]
                           /\ pc' = [pc EXCEPT ![p] = "instructions"]
                   /\ UNCHANGED <<db, ret>>
    /\ UNCHANGED <<rcp, call, nCalls, lim, last, snaps, listing, codec, store, req>>

\* The instruction rows, their step images and links, and the main image.
InsertInstructions(p) ==
    /\ pc[p] = "instructions"
    /\ store = "up"
    /\ LET r == rcp[p]
           t1 == TxInsert(tx[p], "recipe_instructions",
                          InstructionRows(r, r.ID, seq.instructions))
           t2 == TxInsert(t1, "recipe_images",
                          StepImageRows(r, r.ID, seq.images) \cup
                          MainImageRows(r, r.ID, seq.images))
       IN  /\ tx' = [tx EXCEPT ![p] =
                        TxInsert(t2, "recipe_instruction_images",
                                 StepImageLinks(r, seq.instructions, seq.images))]
           /\ seq' = [seq EXCEPT
                        !.instructions = @ + Len(r.Instructions),
                        !.images = @ + CountStepImages(r) +
                                   Cardinality(MainImageRows(r, r.ID, seq.images))]
    /\ pc' = [pc EXCEPT ![p] = "commit"]
    /\ UNCHANGED <<db, rcp, pos, ret, call, nCalls, lim, last, snaps, listing, codec, store, req>>

\* return tx.Commit()
CommitTx(p) ==
    /\ pc[p] = "commit"
    /\ store = "up"
    /\ db' = Commit(db, tx[p])
    /\ tx' = [tx EXCEPT ![p] = NoTx]
    /\ pc' = [pc EXCEPT ![p] = "idle"]
    /\ pos' = [pos EXCEPT ![p] = 0]
    /\ ret' = [ret EXCEPT ![p] = "ok"]
    /\ last' = [last EXCEPT ![rcp[p].ID] =
                    [given |-> rcp[p],
                     updates |-> IF call[p].op = "Update"
                                 THEN Append(@.updates, call[p].version)
                                 ELSE <<>>,
                     deleted |-> FALSE]]
    /\ snaps' = Snapshot(db', rcp[p].ID)
    /\ UNCHANGED <<seq, rcp, call, nCalls, lim, listing, codec, store, req>>

\* A statement of the running call fails (connection lost, timeout, deadlock
\* victim): the call returns the error, its transaction is rolled back.
Fail(p) ==
    /\ pc[p] # "idle"
    /\ Return(p, "failed")
    /\ rcp' = [rcp EXCEPT ![p] = IF call[p].op = "Get" THEN NoRecipe ELSE @]
    /\ UNCHANGED <<seq, call, nCalls, lim, last, snaps, listing, codec, store, req>>

\* The row or index entry the next statement of p has to lock: the recipes row
\* of an UPDATE or DELETE, the name of an upsert.
WaitsOn(p) ==
    CASE pc[p] = "upd_recipe" -> {<<"recipes", rcp[p].ID>>}
      [] pc[p] = "del_recipe" -> {<<"recipes", call[p].id>>}
      [] pc[p] = "ingredients" -> {<<"ingredients", rcp[p].Ingredients[pos[p]].Ingredient>>}
      [] pc[p] = "equipment" -> {<<"equipment", rcp[p].RequiredEquipment[pos[p]]>>}
      [] OTHER -> {}

\* p waits for a lock that the open transaction of q holds.
Blocked(p, q) == p # q /\ WaitsOn(p) \cap tx[q].locks # {}

\* Two transactions wait for each other.
WaitCycle == \E p, q \in Procs : Blocked(p, q) /\ Blocked(q, p)

\* The store finds the wait cycle and ends it: the statement p waits in fails
\* with "deadlock detected", the call returns the error, its transaction is
\* rolled back.
DeadlockDetected(p) ==
    /\ \E q \in Procs : Blocked(p, q) /\ Blocked(q, p)
    /\ Fail(p)

\* The store stops answering, for good.
StoreStops ==
    /\ store = "up"
    /\ store' = "down"
    /\ UNCHANGED <<db, seq, pc, rcp, tx, pos, ret, call, nCalls, lim, last, snaps, listing,
                   codec, req>>

\* The statement the call of p waits in was issued with the context of
\* context.WithTimeout: every statement of Get, Delete and GetAll, and of
\* Update the statements between Begin and Commit.  Insert uses no context.
UnderTimeout(p) ==
    \/ call[p].op \in {"Get", "Delete", "GetAll"}
    \/ call[p].op = "Update" /\ pc[p] \notin {"upd_recipe", "commit"}

\* The deadline of the context passes while the store does not answer: the
\* statement is cancelled and the call returns the error.
Timeout(p) ==
    /\ store = "down"
    /\ UnderTimeout(p)
    /\ Fail(p)

\* Delete(id): ids below 1 are refused before any statement.
CallDelete(p) ==
    /\ pc[p] = "idle"
    /\ req[p].stage # "get"
    /\ \E id \in 0..lim.writes - 1 :
        /\ call' = [call EXCEPT ![p] = [op |-> "Delete", id |-> id, version |-> 0,
                                        stored |-> 0]]
        /\ IF id < 1
           THEN /\ ret' = [ret EXCEPT ![p] = "NotFound"]
                /\ UNCHANGED pc
           ELSE /\ ret' = [ret EXCEPT ![p] = "none"]
                /\ pc' = [pc EXCEPT ![p] = "del_recipe"]
    /\ rcp' = [rcp EXCEPT ![p] = NoRecipe]
    /\ snaps' = [snaps EXCEPT ![p] = {}]
    /\ listing' = [listing EXCEPT ![p] = NoListing]
    /\ req' = [req EXCEPT ![p] = NoReq]
    /\ UNCHANGED <<db, seq, tx, pos, nCalls, lim, last, codec, store>>

\* DELETE FROM recipes WHERE id = $1, one statement in its own transaction;
\* it waits while another transaction holds the row.
DeleteRecipe(p) ==
    /\ pc[p] = "del_recipe"
    /\ store = "up"
    /\ ~LockedByOther(p, <<"recipes", call[p].id>>)
    /\ IF RecipeRows(db, call[p].id) = {}
       THEN /\ ret' = [ret EXCEPT ![p] = "NotFound"]
            /\ UNCHANGED <<db, last>>
       ELSE /\ ret' = [ret EXCEPT ![p] = "ok"]
            /\ db' = CascadeDelete(db, call[p].id)
            /\ last' = [last EXCEPT ![call[p].id] = Gone]
    /\ pc' = [pc EXCEPT ![p] = "idle"]
    /\ UNCHANGED <<seq, rcp, tx, pos, call, nCalls, lim, snaps, listing, codec, store, req>>

\* Get(id): ids below 1 are refused before any query.
CallGet(p) ==
    /\ pc[p] = "idle"
    /\ req[p].stage # "get"
    /\ \E id \in 0..lim.writes - 1 :
        /\ call' = [call EXCEPT ![p] = [op |-> "Get", id |-> id, version |-> 0,
                                        stored |-> 0]]
        /\ IF id < 1
           THEN /\ ret' = [ret EXCEPT ![p] = "NotFound"]
                /\ UNCHANGED pc
           ELSE /\ ret' = [ret EXCEPT ![p] = "none"]
                /\ pc' = [pc EXCEPT ![p] = "get_recipe"]
    /\ rcp' = [rcp EXCEPT ![p] = NoRecipe]
    /\ snaps' = [snaps EXCEPT ![p] = {}]
    /\ listing' = [listing EXCEPT ![p] = NoListing]
    /\ req' = [req EXCEPT ![p] = NoReq]
    /\ UNCHANGED <<db, seq, tx, pos, nCalls, lim, last, codec, store>>

\* SELECT ... FROM recipes WHERE id = $1, scanned into the Recipe.
GetRecipe(p) ==
    /\ pc[p] = "get_recipe"
    /\ store = "up"
    /\ LET rows == RecipeRows(db, call[p].id)
           row == CHOOSE x \in rows : TRUE
       IN  IF rows = {}
           THEN /\ ret' = [ret EXCEPT ![p] = "NotFound"]
                /\ pc' = [pc EXCEPT ![p] = "idle"]
                /\ UNCHANGED <<rcp, snaps>>
           ELSE IF ScanFails(row)
           THEN /\ ret' = [ret EXCEPT ![p] = "error"]
                /\ pc' = [pc EXCEPT ![p] = "idle"]
                /\ UNCHANGED <<rcp, snaps>>
           ELSE /\ rcp' = [rcp EXCEPT ![p] = ScanRecipe(row)]
                /\ pc' = [pc EXCEPT ![p] = "get_ingredients"]
                /\ snaps' = [snaps EXCEPT ![p] = Aggregates(db, call[p].id)]
                /\ UNCHANGED ret
    /\ UNCHANGED <<db, seq, tx, pos, call, nCalls, lim, last, listing, codec, store, req>>

GetIngredients(p) ==
    /\ pc[p] = "get_ingredients"
    /\ store = "up"
    /\ \E s \in QueryIngredients(db, call[p].id) :
        rcp' = [rcp EXCEPT ![p].Ingredients = s]
    /\ pc' = [pc EXCEPT ![p] = "get_equipment"]
    /\ UNCHANGED <<db, seq, tx, pos, ret, call, nCalls, lim, last, snaps, listing, codec, store, req>>

GetEquipment(p) ==
    /\ pc[p] = "get_equipment"
    /\ store = "up"
    /\ \E s \in QueryEquipment(db, call[p].id) :
        rcp' = [rcp EXCEPT ![p].RequiredEquipment = s]
    /\ pc' = [pc EXCEPT ![p] = "get_instructions"]
    /\ UNCHANGED <<db, seq, tx, pos, ret, call, nCalls, lim, last, snaps, listing, codec, store, req>>

\* The instruction rows; the images of each step are fetched by a query of
\* their own while the rows are iterated.
GetInstructions(p) ==
    /\ pc[p] = "get_instructions"
    /\ store = "up"
    /\ \E s \in QueryInstructions(db, call[p].id) :
        /\ rcp' = [rcp EXCEPT ![p].Instructions = s]
        /\ pc' = [pc EXCEPT ![p] = IF Len(s) > 0 THEN "get_images" ELSE "get_main"]
    /\ pos' = [pos EXCEPT ![p] = 1]
    /\ UNCHANGED <<db, seq, tx, ret, call, nCalls, lim, last, snaps, listing, codec, store, req>>

GetStepImages(p) ==
    /\ pc[p] = "get_images"
    /\ store = "up"
    /\ rcp' = [rcp EXCEPT ![p].Instructions[pos[p]].ImageURLs =
                  QueryStepImages(db, rcp[p].Instructions[pos[p]].ID)]
    /\ IF pos[p] < Len(rcp[p].Instructions)
       THEN /\ pos' = [pos EXCEPT ![p] = @ + 1]
            /\ UNCHANGED pc
       ELSE /\ pos' = [pos EXCEPT ![p] = 0]
            /\ pc' = [pc EXCEPT ![p] = "get_main"]
    /\ UNCHANGED <<db, seq, tx, ret, call, nCalls, lim, last, snaps, listing, codec, store, req>>

GetMain(p) ==
    /\ pc[p] = "get_main"
    /\ store = "up"
    /\ \E u \in QueryMain(db, call[p].id) :
        rcp' = [rcp EXCEPT ![p].DisplayURL = u]
    /\ pc' = [pc EXCEPT ![p] = "idle"]
    /\ pos' = [pos EXCEPT ![p] = 0]
    /\ ret' = [ret EXCEPT ![p] = "ok"]
    /\ UNCHANGED <<db, seq, tx, call, nCalls, lim, last, snaps, listing, codec, store, req>>

\* updateRecipeHandler, the merge: a field of the request that is present
\* replaces the field of the recipe that Get returned.
Merge(recipe, input) ==
    LET pick(given, had) == IF given # Null THEN given[1] ELSE had
    IN  [recipe EXCEPT
            !.Name = pick(input.Name, @),
            !.Description = pick(input.Description, @),
            !.Ingredients = pick(input.Ingredients, @),
            !.RequiredEquipment = pick(input.RequiredEquipment, @),
            !.Instructions = pick(input.Instructions, @),
            !.Notes = pick(input.Notes, @),
            !.DisplayURL = pick(input.DisplayURL, @),
            !.SourceURL = pick(input.SourceURL, @),
            !.PrepTime = pick(input.PrepTime, @),
            !.ActiveTime = pick(input.ActiveTime, @),
            !.Servings = pick(input.Servings, @)]

\* ValidateRecipe: the name is not empty (names of the model are short).
ValidateRecipe(r) == r.Name # ""

\* updateRecipeHandler, up to its call of Get: the id of the URL is positive.
updateRecipeHandler(p) ==
    /\ pc[p] = "idle"
    /\ req[p].stage # "get"
    /\ nCalls < lim.writes
    /\ \E id \in 1..lim.writes - 1, input \in Patches :
        /\ req' = [req EXCEPT ![p] = [NoReq EXCEPT !.stage = "get", !.id = id,
                                                   !.input = input]]
        /\ call' = [call EXCEPT ![p] = [op |-> "Get", id |-> id, version |-> 0,
                                        stored |-> 0]]
    /\ pc' = [pc EXCEPT ![p] = "get_recipe"]
    /\ ret' = [ret EXCEPT ![p] = "none"]
    /\ rcp' = [rcp EXCEPT ![p] = NoRecipe]
    /\ nCalls' = nCalls + 1
    /\ snaps' = [snaps EXCEPT ![p] = {}]
    /\ listing' = [listing EXCEPT ![p] = NoListing]
    /\ UNCHANGED <<db, seq, tx, pos, lim, last, codec, store>>

\* updateRecipeHandler after Get has returned: the not-found and server-error
\* responses, or the merge, the validation and the call of Update with the
\* merged recipe, which carries the version Get read.
MergeAndUpdate(p) ==
    /\ pc[p] = "idle"
    /\ req[p].stage = "get"
    /\ LET recipe == Merge(rcp[p], req[p].input)
       IN  IF ret[p] # "ok"
           THEN /\ req' = [req EXCEPT ![p].stage = "done",
                                      ![p].response = IF ret[p] = "NotFound"
                                                      THEN "notFound"
                                                      ELSE "serverError"]
                /\ UNCHANGED <<pc, ret, rcp, call, snaps>>
           ELSE IF ~ValidateRecipe(recipe)
           THEN /\ req' = [req EXCEPT ![p].stage = "done",
                                      ![p].response = "failedValidation"]
                /\ UNCHANGED <<pc, ret, rcp, call, snaps>>
           ELSE /\ req' = [req EXCEPT ![p].stage = "update", ![p].got = rcp[p]]
                /\ rcp' = [rcp EXCEPT ![p] = recipe]
                /\ call' = [call EXCEPT ![p] =
                               [op |-> "Update", id |-> recipe.ID,
                                version |-> recipe.Version,
                                stored |-> StoredVersion(db, recipe.ID)]]
                /\ pc' = [pc EXCEPT ![p] = "upd_recipe"]
                /\ ret' = [ret EXCEPT ![p] = "none"]
                /\ snaps' = [snaps EXCEPT ![p] = {}]
    /\ UNCHANGED <<db, seq, tx, pos, nCalls, lim, last, listing, codec, store>>

\* The response of the handler of p once Update has returned: 200 with the
\* recipe, the edit-conflict response, or the server-error response.
Response(p) ==
    IF req[p].stage = "done" THEN req[p].response
    ELSE IF req[p].stage = "update" /\ pc[p] = "idle"
    THEN CASE ret[p] = "ok" -> "ok"
           [] ret[p] = "EditConflict" -> "editConflict"
           [] OTHER -> "serverError"
    ELSE "none"

\* The steps of a PATCH request: the handler, Get and Update.
PatchStep(p) ==
    \/ updateRecipeHandler(p)
    \/ GetRecipe(p)
    \/ GetIngredients(p)
    \/ GetEquipment(p)
    \/ GetInstructions(p)
    \/ GetStepImages(p)
    \/ GetMain(p)
    \/ MergeAndUpdate(p)
    \/ UpdateRecipe(p)
    \/ DeleteOld(p)
    \/ UpsertIngredient(p)
    \/ UpsertEquipment(p)
    \/ InsertInstructions(p)
    \/ CommitTx(p)

\* GetAll(name, ingredients, equipment, prepTime, activeTime, filters)
CallGetAll(p) ==
    /\ pc[p] = "idle"
    /\ req[p].stage # "get"
    /\ \E q \in lim.queries :
        listing' = [listing EXCEPT ![p] = [NoListing EXCEPT !.query = q]]
    /\ call' = [call EXCEPT ![p] = [op |-> "GetAll", id |-> 0, version |-> 0,
                                    stored |-> 0]]
    /\ pc' = [pc EXCEPT ![p] = "get_all"]
    /\ ret' = [ret EXCEPT ![p] = "none"]
    /\ rcp' = [rcp EXCEPT ![p] = NoRecipe]
    /\ snaps' = [snaps EXCEPT ![p] = {}]
    /\ req' = [req EXCEPT ![p] = NoReq]
    /\ UNCHANGED <<db, seq, tx, pos, nCalls, lim, last, codec, store>>

\* The one statement of GetAll and the scan of its rows: a row that does not
\* scan ends the call with an error, nil and the zero Metadata.
ListRecipes(p) ==
    /\ pc[p] = "get_all"
    /\ store = "up"
    /\ LET q == listing[p].query
           rows == JoinMain(db, FilteredRecipes(db, q))
       IN  \E f \in ListOrders(rows, q.Sort) :
               LET w == Window(f, q.Page, q.PageSize)
               IN  IF \E k \in DOMAIN w : ScanFails(w[k].row)
                   THEN /\ ret' = [ret EXCEPT ![p] = "error"]
                        /\ UNCHANGED listing
                   ELSE /\ ret' = [ret EXCEPT ![p] = "ok"]
                        /\ listing' = [listing EXCEPT ![p] =
                               [query |-> q,
                                recipes |-> ScanRows(w),
                                metadata |-> calculateMetadata(TotalRecords(rows, w),
                                                               q.Page, q.PageSize)]]
    /\ pc' = [pc EXCEPT ![p] = "idle"]
    /\ UNCHANGED <<db, seq, rcp, tx, pos, call, nCalls, lim, last, snaps, codec, store, req>>

ListStep(p) ==
    \/ CallGetAll(p)
    \/ ListRecipes(p)

\* (d *Duration) UnmarshalJSON(b), b any offered JSON value or the bytes
\* MarshalJSON returned last: bytes that are no JSON give the decoder's error,
\* a value that is no string and a string that does not parse give a format
\* error, and the Duration is assigned only on success.
UnmarshalJSON ==
    /\ \E b \in JSONValues \cup ({codec.b} \ {NoJSON}) :
          codec' =
              IF b.kind = "invalid"
              THEN [codec EXCEPT !.b = b, !.op = "Unmarshal", !.err = "syntax"]
              ELSE IF b.kind # "string" \/ ~ParseOK(b.text)
              THEN [codec EXCEPT !.b = b, !.op = "Unmarshal", !.err = "format"]
              ELSE [d |-> ParseDuration(b.text), b |-> b, err |-> "nil",
                    op |-> "Unmarshal"]
    /\ UNCHANGED <<db, seq, pc, rcp, tx, pos, ret, call, nCalls, lim, last, snaps, listing, store, req>>

\* (d Duration) MarshalJSON(): the JSON string of d.String().
MarshalJSON ==
    /\ codec' = [codec EXCEPT !.b = [kind |-> "string", text |-> String(codec.d)],
                              !.op = "Marshal", !.err = "nil"]
    /\ UNCHANGED <<db, seq, pc, rcp, tx, pos, ret, call, nCalls, lim, last, snaps, listing, store, req>>

\* The steps of the write operations and of Get.
WriteStep(p) ==
    \/ CallInsert(p)
    \/ InsertRecipe(p)
    \/ CallUpdate(p)
    \/ UpdateRecipe(p)
    \/ DeleteOld(p)
    \/ UpsertIngredient(p)
    \/ UpsertEquipment(p)
    \/ InsertInstructions(p)
    \/ CommitTx(p)
    \/ CallDelete(p)
    \/ DeleteRecipe(p)

ReadStep(p) ==
    \/ CallGet(p)
    \/ GetRecipe(p)
    \/ GetIngredients(p)
    \/ GetEquipment(p)
    \/ GetInstructions(p)
    \/ GetStepImages(p)
    \/ GetMain(p)

\* One caller making one call after the other.
Next == WriteStep("p1") \/ ReadStep("p1") \/ Fail("p1")

Spec == Init /\ [][Next]_vars

\* The steps of Update alone.
UpdateStep(p) ==
    \/ CallUpdate(p)
    \/ UpdateRecipe(p)
    \/ DeleteOld(p)
    \/ UpsertIngredient(p)
    \/ UpsertEquipment(p)
    \/ InsertInstructions(p)
    \/ CommitTx(p)

\* Two callers writing concurrently: one inserts, updates and deletes, the
\* other updates.
NextWriters == WriteStep("p1") \/ UpdateStep("p2") \/ Fail("p1") \/ Fail("p2")

SpecWriters == InitWriters /\ [][NextWriters]_vars

\* One caller writing while the other reads.
NextReader == WriteStep("p1") \/ ReadStep("p2") \/ Fail("p1") \/ Fail("p2")

SpecReader == InitReader /\ [][NextReader]_vars

\* Two callers writing, the store ending every wait cycle; a statement that
\* can run does run, and a wait cycle does not last.
NextCycle ==
    \/ WriteStep("p1") \/ WriteStep("p2")
    \/ DeadlockDetected("p1") \/ DeadlockDetected("p2")

SpecCycle ==
    /\ InitCycle /\ [][NextCycle]_vars
    /\ WF_vars(WriteStep("p1")) /\ WF_vars(WriteStep("p2"))
    /\ WF_vars(DeadlockDetected("p1") \/ DeadlockDetected("p2"))

\* Two callers writing, each with Insert, Update and Delete.
NextResolve == WriteStep("p1") \/ WriteStep("p2") \/ Fail("p1") \/ Fail("p2")

SpecResolve == InitResolve /\ [][NextResolve]_vars

\* One caller writing, reading and serving PATCH requests, the other serving
\* PATCH requests.
NextPatch ==
    \/ WriteStep("p1") \/ ReadStep("p1") \/ PatchStep("p1") \/ PatchStep("p2")
    \/ Fail("p1") \/ Fail("p2")

SpecPatch == InitPatch /\ [][NextPatch]_vars

\* One caller writing, inputs with a name given twice among them.
NextPairs == WriteStep("p1") \/ Fail("p1")

SpecPairs == InitPairs /\ [][NextPairs]_vars

\* The steps of Insert alone.
InsertStep(p) ==
    \/ CallInsert(p)
    \/ InsertRecipe(p)
    \/ UpsertIngredient(p)
    \/ UpsertEquipment(p)
    \/ InsertInstructions(p)
    \/ CommitTx(p)

\* One caller inserting and listing, the other listing.
NextPages ==
    \/ InsertStep("p1") \/ ListStep("p1") \/ ListStep("p2")
    \/ Fail("p1") \/ Fail("p2")

SpecPages == InitPages /\ [][NextPages]_vars

\* One caller writing and reading, the other reading.
NextReads ==
    WriteStep("p1") \/ ReadStep("p1") \/ ReadStep("p2") \/ Fail("p1") \/ Fail("p2")

SpecReads == InitReads /\ [][NextReads]_vars

\* One caller writing and listing.
NextList == WriteStep("p1") \/ ListStep("p1") \/ Fail("p1")

SpecList == InitList /\ [][NextList]_vars

\* A Duration field parsed from and serialized to JSON, over and over.
NextText == UnmarshalJSON \/ MarshalJSON

SpecText == InitText /\ [][NextText]_vars

\* One caller writing values the store's CHECK constraints are about.
NextChecks == WriteStep("p1") \/ Fail("p1")

SpecChecks == InitChecks /\ [][NextChecks]_vars

\* One caller; the store may stop answering, and then only the deadline of a
\* context ends a call for sure.
NextHang ==
    \/ WriteStep("p1") \/ ReadStep("p1") \/ ListStep("p1")
    \/ StoreStops
    \/ Timeout("p1")
    \/ Fail("p1")

SpecHang == InitHang /\ [][NextHang]_vars /\ WF_vars(Timeout("p1"))

\* One caller writing, reading and listing.
NextCodec == WriteStep("p1") \/ ReadStep("p1") \/ ListStep("p1") \/ Fail("p1")

SpecCodec == InitCodec /\ [][NextCodec]_vars

\* One caller writing and listing in every order.
NextSort == WriteStep("p1") \/ ListStep("p1") \/ Fail("p1")

SpecSort == InitSort /\ [][NextSort]_vars

(***************************************************************************)
(* Properties.                                                             *)
(***************************************************************************)
Errors == {"error", "failed"}

\* Child entries without their store-assigned ids.
StripIDs(entries) == [k \in DOMAIN entries |-> [entries[k] EXCEPT !.ID = 0]]

\* The committed aggregate of r.ID carries the version, the scalar fields and
\* the children of the caller's Recipe r.
Reflects(d, r) ==
    \E a \in Aggregates(d, r.ID) :
        /\ a.Version = r.Version
        /\ a.Name = r.Name /\ a.Description = r.Description /\ a.Notes = r.Notes
        /\ a.SourceURL = r.SourceURL /\ a.Servings = r.Servings
        /\ a.DisplayURL = r.DisplayURL
        /\ Range(StripIDs(a.Ingredients)) = Range(StripIDs(r.Ingredients))
        /\ Range(a.RequiredEquipment) = Range(r.RequiredEquipment)
        /\ Range(StripIDs(a.Instructions)) = Range(StripIDs(r.Instructions))

\* C1: Optimistic lock, sequential.  An Update that returns ok found the
\* recipe stored at the version it carried and leaves it stored, and returns
\* it to the caller, at that version plus one; an Update carrying a version
\* that a committed Update of the same recipe carried before does not succeed
\* (EditConflict, or the store failed before the statement ran) and leaves
\* the store as it was.
C1_OptimisticLock ==
    [][\A p \in Procs :
        (call[p].op = "Update" /\ pc[p] # "idle" /\ pc'[p] = "idle") =>
            /\ ret'[p] = "ok" =>
                /\ StoredVersion(db, call[p].id) = call[p].version
                /\ StoredVersion(db', call[p].id) = call[p].version + 1
                /\ rcp'[p].Version = call[p].version + 1
            /\ (StoredVersion(db, call[p].id) = call[p].version /\ ret'[p] \notin Errors) =>
                ret'[p] = "ok"
            /\ call[p].version \in Range(last[call[p].id].updates) =>
                /\ ret'[p] \in {"EditConflict", "failed"}
                /\ db' = db]_vars

\* C1 witness: a stale Update returned EditConflict after an Update carrying
\* the same version had committed.
C1_Witness ==
    \E p \in Procs :
        /\ pc[p] = "idle" /\ call[p].op = "Update" /\ ret[p] = "EditConflict"
        /\ call[p].version \in Range(last[call[p].id].updates)
        /\ StoredVersion(db, call[p].id) = call[p].version + 1

\* Two finished Update calls for the same recipe that both started while the
\* recipe was stored at the version they carry.
SameUpdate(p, q) ==
    /\ p # q
    /\ pc[p] = "idle" /\ pc[q] = "idle"
    /\ call[p].op = "Update" /\ call[q].op = "Update"
    /\ call[p].id = call[q].id /\ call[p].version = call[q].version
    /\ call[p].stored = call[p].version /\ call[q].stored = call[q].version

\* C2: Concurrent updates.  Of two Update calls that carry the stored version
\* v of the same recipe and that the store does not fail, exactly one
\* commits: it returns ok, the recipe is stored at v + 1 with that call's
\* fields and children, and the other call returns EditConflict.
C2_ExactlyOneWins ==
    \A p, q \in Procs :
        (SameUpdate(p, q) /\ ret[p] \notin Errors /\ ret[q] \notin Errors) =>
            \E w \in {p, q} :
                /\ ret[w] = "ok"
                /\ \A o \in {p, q} \ {w} : ret[o] = "EditConflict"
                /\ StoredVersion(db, call[w].id) = call[w].version + 1
                /\ Reflects(db, rcp[w])

\* C2 witness: the two calls overlapped, one committed a recipe different
\* from the loser's input, the other got EditConflict.
C2_Witness ==
    \E p, q \in Procs :
        /\ SameUpdate(p, q)
        /\ ret[p] = "ok" /\ ret[q] = "EditConflict"
        /\ rcp[p].Name # rcp[q].Name

\* Ids of the rows of table k that the open transaction t has inserted.
PutIDs(t, k) == {x.id : x \in t.put[k]}

\* Rows of d that belong to recipe id.
RowsOf(d, id) ==
    [recipes |-> RecipeRows(d, id),
     recipe_ingredients |-> {x \in d.recipe_ingredients : x.recipe_id = id},
     recipe_equipment |-> {x \in d.recipe_equipment : x.recipe_id = id},
     recipe_instructions |-> {x \in d.recipe_instructions : x.recipe_id = id},
     recipe_images |-> {x \in d.recipe_images : x.recipe_id = id}]

NoRowsOf == [recipes |-> {}, recipe_ingredients |-> {}, recipe_equipment |-> {},
             recipe_instructions |-> {}, recipe_images |-> {}]

\* The entries of a collection of a Recipe that Get is building.
Loaded(entries) == IF entries = NilEntries THEN {} ELSE Range(entries)

\* No caller in Get holds the recipe, a reference row or a step that an open
\* Insert has written.
Unobserved ==
    \A p, q \in Procs :
        (call[p].op = "Insert" /\ pc[p] # "idle" /\ call[q].op = "Get") =>
            /\ rcp[q].ID \notin PutIDs(tx[p], "recipes")
            /\ \A e \in Loaded(rcp[q].Ingredients) : e.ID \notin PutIDs(tx[p], "ingredients")
            /\ \A e \in Loaded(rcp[q].Instructions) :
                  e.ID \notin PutIDs(tx[p], "recipe_instructions")
            /\ \A n \in Range(rcp[q].RequiredEquipment) :
                  \A x \in tx[p].put.equipment : x.name # n \/ x \in db.equipment

\* C3: Insert is all-or-nothing.  When Insert returns an error, whichever
\* statement failed, the committed store is what it was: it holds no recipe
\* row and no child row under the id the call drew and none of the
\* ingredient / equipment reference rows the call created; and at no moment
\* does a Get hold a row that an unfinished Insert has written.
C3_InsertAllOrNothing ==
    [][/\ Unobserved'
       /\ \A p \in Procs :
            (call[p].op = "Insert" /\ pc[p] # "idle" /\ pc'[p] = "idle"
                /\ ret'[p] \in Errors) =>
                /\ db' = db
                /\ RowsOf(db', rcp[p].ID) = NoRowsOf
                /\ \A k \in Tables : tx[p].put[k] \cap db'[k] = {}]_vars

\* C3 witness: an Insert failed after it had drawn its recipe id and created
\* a reference row; neither is in the store.
C3_Witness ==
    \E p \in Procs :
        /\ pc[p] = "idle" /\ call[p].op = "Insert" /\ ret[p] \in Errors
        /\ rcp[p].ID # 0 /\ RecipeRows(db, rcp[p].ID) = {}
        /\ seq.ingredients > 1 /\ db.ingredients = {}

\* C4: Update is all-or-nothing.  When Update fails after its version check
\* has passed, the committed store is what it was: the recipe is stored at
\* the old version with the old fields, and every old ingredient, equipment,
\* instruction and image row is still there.
C4_UpdateAllOrNothing ==
    [][\A p \in Procs :
        (call[p].op = "Update" /\ pc[p] \notin {"idle", "upd_recipe"}
            /\ pc'[p] = "idle" /\ ret'[p] \in Errors) =>
            /\ db' = db
            /\ StoredVersion(db', call[p].id) = call[p].version
            /\ RowsOf(db, call[p].id).recipes \subseteq db'.recipes
            /\ Aggregates(db', call[p].id) = Aggregates(db, call[p].id)]_vars

\* C4 witness: an Update that had replaced the row (the caller holds the new
\* version) failed; the recipe is stored at the old version with children.
C4_Witness ==
    \E p \in Procs :
        /\ pc[p] = "idle" /\ call[p].op = "Update" /\ ret[p] \in Errors
        /\ rcp[p].Version = call[p].version + 1
        /\ StoredVersion(db, call[p].id) = call[p].version
        /\ RowsOf(db, call[p].id).recipe_ingredients # {}

\* C5: Update returns EditConflict exactly when no stored recipe row has both
\* the given id and the given version (store failures aside); the call then
\* ends at once: nothing is deleted or inserted, no reference row is created
\* and no sequence value is drawn.
C5_EditConflict ==
    [][\A p \in Procs :
        LET hit == {x \in db.recipes : x.id = call[p].id /\ x.version = call[p].version}
        IN  /\ (call[p].op = "Update" /\ pc[p] = "upd_recipe" /\ pc'[p] # "upd_recipe"
                   /\ ret'[p] # "failed") =>
                    /\ ret'[p] = "EditConflict" <=> hit = {}
                    /\ hit = {} => pc'[p] = "idle"
            /\ (pc[p] # "idle" /\ pc'[p] = "idle" /\ ret'[p] = "EditConflict") =>
                    /\ call[p].op = "Update" /\ pc[p] = "upd_recipe" /\ hit = {}
                    /\ tx[p] = NoTx
                    /\ db' = db /\ seq' = seq /\ tx' = tx]_vars

\* C5 witness: an Update with a stale version of an existing recipe returned
\* EditConflict; the children of the recipe are in the store.
C5_Witness ==
    \E p \in Procs :
        /\ pc[p] = "idle" /\ call[p].op = "Update" /\ ret[p] = "EditConflict"
        /\ StoredVersion(db, call[p].id) \notin {0, call[p].version}
        /\ RowsOf(db, call[p].id).recipe_ingredients # {}

\* C6: Version invariant.  Every stored recipe has version 1 + the number of
\* Update calls of that recipe that returned ok, and the k-th of them carried
\* version k.
C6_VersionInvariant ==
    \A row \in db.recipes :
        /\ row.version = 1 + Len(last[row.id].updates)
        /\ \A k \in 1..Len(last[row.id].updates) : last[row.id].updates[k] = k

\* C6 witness: a recipe updated twice is stored at version 3.
C6_Witness ==
    \E row \in db.recipes : row.version = 3 /\ Len(last[row.id].updates) = 2

\* A Recipe without the ids of its child entries.
Content(r) ==
    [r EXCEPT !.Ingredients = StripIDs(@), !.Instructions = StripIDs(@)]

\* A finished Get of a recipe that was inserted and not updated since, the
\* store not having failed the Get.
GetAfterInsert(p) ==
    /\ pc[p] = "idle" /\ call[p].op = "Get" /\ ret[p] \in {"ok", "error"}
    /\ RecipeRows(db, call[p].id) # {}
    /\ last[call[p].id].given.ID = call[p].id
    /\ last[call[p].id].updates = <<>>

\* C7: Round trip.  Get of a freshly inserted recipe returns ok with the
\* Recipe that Insert was given and filled in (ID, CreatedAt, Version = 1):
\* every field equal, children in the order given, child ids aside.
C7_RoundTrip ==
    \A p \in Procs :
        GetAfterInsert(p) =>
            /\ ret[p] = "ok"
            /\ Content(rcp[p]) = Content(last[call[p].id].given)

\* C8: Reads under concurrency.  A Get that returns ok returns an aggregate
\* that was the committed aggregate of the recipe at one moment between its
\* first query and its last.
C8_SingleVersion ==
    \A p \in Procs :
        (pc[p] = "idle" /\ call[p].op = "Get" /\ ret[p] = "ok") => rcp[p] \in snaps[p]

\* Rows of the reference table refs named n.
Named(refs, n) == {x \in refs : x.name = n}

\* A reference table with unique names and ids, every junction row of which
\* points at exactly one of its rows.
Deduplicated(refs, links, Ref(_)) ==
    /\ \A x, y \in refs : (x.name = y.name \/ x.id = y.id) => x = y
    /\ \A l \in links : Cardinality({x \in refs : x.id = Ref(l)}) = 1

IngredientRef(l) == l.ingredient_id

EquipmentRef(l) == l.equipment_id

\* C9: Deduplication.  The ingredients table and the equipment table hold at
\* most one row per name, and every junction row points at exactly one
\* reference row; recipes that use a name share its one row.
C9_Deduplication ==
    /\ Deduplicated(db.ingredients, db.recipe_ingredients, IngredientRef)
    /\ Deduplicated(db.equipment, db.recipe_equipment, EquipmentRef)

\* C9 witness: two stored recipes use "salt"; there is one row named "salt"
\* and each recipe has one junction row pointing at it.
C9_Witness ==
    \E a, b \in db.recipes :
        /\ a.id # b.id
        /\ Cardinality(Named(db.ingredients, "salt")) = 1
        /\ \A r \in {a, b} :
              Cardinality({l \in db.recipe_ingredients :
                              /\ l.recipe_id = r.id
                              /\ \E x \in Named(db.ingredients, "salt") :
                                    x.id = l.ingredient_id}) = 1

\* Links whose instruction or image belongs to recipe id in d.
LinksOf(d, id) ==
    {l \in d.recipe_instruction_images :
        \/ \E x \in RowsOf(d, id).recipe_instructions : x.id = l.instruction_id
        \/ \E x \in RowsOf(d, id).recipe_images : x.id = l.image_id}

\* C10: Cascade.  After a Delete that returns ok, the store holds no recipe
\* row, junction row, instruction row or image row of that recipe and no link
\* to one of its instructions or images; the ingredients and equipment tables
\* are what they were, and so is every row and the aggregate of every other
\* recipe.
C10_Cascade ==
    [][\A p \in Procs :
        (call[p].op = "Delete" /\ pc[p] = "del_recipe" /\ pc'[p] = "idle"
            /\ ret'[p] = "ok") =>
            /\ RowsOf(db, call[p].id).recipes # {}
            /\ RowsOf(db', call[p].id) = NoRowsOf
            /\ \A l \in db'.recipe_instruction_images : l \notin LinksOf(db, call[p].id)
            /\ db'.ingredients = db.ingredients /\ db'.equipment = db.equipment
            /\ \A id \in (1..lim.writes) \ {call[p].id} :
                  /\ RowsOf(db', id) = RowsOf(db, id)
                  /\ LinksOf(db', id) = LinksOf(db, id)
                  /\ Aggregates(db', id) = Aggregates(db, id)]_vars

\* C10 witness: a recipe with images was deleted (more image ids are drawn
\* than image rows are left) while another recipe keeps its junction row to a
\* reference row.
C10_Witness ==
    \E p \in Procs :
        /\ pc[p] = "idle" /\ call[p].op = "Delete" /\ ret[p] = "ok"
        /\ RowsOf(db, call[p].id) = NoRowsOf
        /\ Cardinality(db.recipe_images) < seq.images - 1
        /\ \E other \in db.recipes :
              \E l \in RowsOf(db, other.id).recipe_ingredients :
                  \E x \in db.ingredients : x.id = l.ingredient_id

\* A Get that has ended with NotFound, or was called with an id below 1, has
\* ended at once with NotFound and hands no recipe to the caller.
NotFoundGet ==
    \A p \in Procs :
        call[p].op = "Get" =>
            /\ call[p].id < 1 => pc[p] = "idle" /\ ret[p] = "NotFound"
            /\ (pc[p] = "idle" /\ ret[p] = "NotFound") => rcp[p] = NoRecipe

\* C11: Not-found on read.  Get(id) with id < 1 returns NotFound without
\* running a query; Get(id) whose first query finds no recipe row with that
\* id returns NotFound (unless the store fails the query); in both cases the
\* caller receives no recipe value.
C11_NotFoundOnRead ==
    [][/\ NotFoundGet'
       /\ \A p \in Procs :
            (pc[p] = "get_recipe" /\ pc'[p] # "get_recipe" /\ ret'[p] # "failed"
                /\ \A x \in db.recipes : x.id # call[p].id) =>
                /\ pc'[p] = "idle" /\ ret'[p] = "NotFound"
                /\ rcp'[p] = NoRecipe]_vars

\* C11 witness: Get of an id that has no row, beside a stored recipe, has
\* returned NotFound.
C11_Witness ==
    \E p \in Procs :
        /\ pc[p] = "idle" /\ call[p].op = "Get" /\ ret[p] = "NotFound"
        /\ call[p].id >= 1 /\ db.recipes # {}
        /\ \A x \in db.recipes : x.id # call[p].id

\* C12: Delete outcome.  Delete(id) with id < 1 returns NotFound and leaves
\* the store alone; Delete(id) whose statement finds no row returns NotFound
\* and changes nothing; otherwise it removes the recipe row and returns ok
\* (store failures aside).  Once Delete(id) has returned ok the id has no row
\* ever again, so a further Delete(id) and every Get(id) return NotFound.
C12_DeleteOutcome ==
    [][\A p \in Procs :
        /\ (pc[p] = "idle" /\ call'[p].op = "Delete" /\ call'[p].id < 1) =>
                pc'[p] = "idle" /\ ret'[p] = "NotFound" /\ db' = db
        /\ (pc[p] = "del_recipe" /\ pc'[p] = "idle" /\ ret'[p] # "failed") =>
                IF \E x \in db.recipes : x.id = call[p].id
                THEN /\ ret'[p] = "ok"
                     /\ \A x \in db'.recipes : x.id # call[p].id
                     /\ last'[call[p].id].deleted
                ELSE ret'[p] = "NotFound" /\ db' = db
        /\ \A id \in DOMAIN last : last[id].deleted =>
                /\ last'[id].deleted
                /\ \A x \in db'.recipes : x.id # id
        /\ (pc[p] \in {"del_recipe", "get_recipe"} /\ pc'[p] # pc[p]
                /\ ret'[p] # "failed" /\ call[p].id \in DOMAIN last
                /\ last[call[p].id].deleted) =>
                pc'[p] = "idle" /\ ret'[p] = "NotFound"]_vars

\* C12 witness: Delete of an id that an earlier Delete removed has returned
\* NotFound.
C12_Witness ==
    \E p \in Procs :
        /\ pc[p] = "idle" /\ call[p].op = "Delete" /\ ret[p] = "NotFound"
        /\ call[p].id \in DOMAIN last /\ last[call[p].id].deleted

\* The steps of one instructions query with the images each step's query
\* returns in d, ids left out.
StepsWithImages(d, steps) ==
    [k \in DOMAIN steps |->
        [steps[k] EXCEPT !.ID = 0, !.ImageURLs = QueryStepImages(d, steps[k].ID)]]

\* The children and the main image stored for recipe id in d are those of
\* the Recipe r, nothing more and nothing less (order aside).
StoredChildren(d, id, r) ==
    /\ \A s \in QueryIngredients(d, id) :
          /\ Len(s) = Len(r.Ingredients)
          /\ Range(StripIDs(s)) = Range(StripIDs(r.Ingredients))
    /\ \A s \in QueryEquipment(d, id) :
          Len(s) = Len(r.RequiredEquipment) /\ Range(s) = Range(r.RequiredEquipment)
    /\ \A s \in QueryInstructions(d, id) :
          /\ Len(s) = Len(r.Instructions)
          /\ Range(StepsWithImages(d, s)) = Range(StripIDs(r.Instructions))
    /\ QueryMain(d, id) = {r.DisplayURL}

\* The children and the main image of the Recipe a are those of r (order
\* aside).
SameChildren(a, r) ==
    /\ Len(a.Ingredients) = Len(r.Ingredients)
    /\ Range(StripIDs(a.Ingredients)) = Range(StripIDs(r.Ingredients))
    /\ Len(a.RequiredEquipment) = Len(r.RequiredEquipment)
    /\ Range(a.RequiredEquipment) = Range(r.RequiredEquipment)
    /\ Len(a.Instructions) = Len(r.Instructions)
    /\ Range(StripIDs(a.Instructions)) = Range(StripIDs(r.Instructions))
    /\ a.DisplayURL = r.DisplayURL

\* C13: Full replace on update.  After an Update with input r has returned
\* ok, the store holds for r.ID exactly the ingredient entries, equipment
\* names, steps with their image URLs and display URL of r, and Get(r.ID)
\* returns ok with exactly those: nothing stored before and absent from r is
\* left.
C13_FullReplace ==
    /\ \A id \in DOMAIN last :
          last[id].updates # <<>> => StoredChildren(db, id, last[id].given)
    /\ \A p \in Procs :
          (pc[p] = "idle" /\ call[p].op = "Get" /\ ret[p] \in {"ok", "error"}
              /\ RecipeRows(db, call[p].id) # {}
              /\ last[call[p].id].updates # <<>>) =>
              /\ ret[p] = "ok"
              /\ SameChildren(rcp[p], last[call[p].id].given)

\* Links of the step image img to an instruction step of its own recipe.
OwnLinks(d, img) ==
    {l \in d.recipe_instruction_images :
        /\ l.image_id = img.id
        /\ \E x \in d.recipe_instructions :
              x.id = l.instruction_id /\ x.recipe_id = img.recipe_id}

\* C14: Step-image ownership.  In every committed state every image row of
\* type step is linked to exactly one instruction step of its recipe.
C14_StepImageOwned ==
    \A img \in db.recipe_images :
        img.image_type = "step" => Cardinality(OwnLinks(db, img)) = 1

\* The image rows of type main stored for recipe id.
MainRows(d, id) == {x \in d.recipe_images : x.recipe_id = id /\ x.image_type = "main"}

\* C15: Main-image invariant.  In every committed state each stored recipe
\* has at most one image row of type main; it has one exactly when the last
\* committed Insert or Update of the recipe carried a non-empty DisplayURL,
\* and the row holds that URL; no main image row belongs to an id without a
\* recipe row.
C15_MainImage ==
    /\ \A row \in db.recipes :
          /\ Cardinality(MainRows(db, row.id)) <= 1
          /\ MainRows(db, row.id) # {} <=> last[row.id].given.DisplayURL # ""
          /\ \A x \in MainRows(db, row.id) : x.image_url = last[row.id].given.DisplayURL
    /\ \A x \in db.recipe_images :
          x.image_type = "main" => \E row \in db.recipes : row.id = x.recipe_id

\* C15 witness: one Insert and one Update, both with a DisplayURL, have
\* committed; the recipe has one main image row, the first one is gone.
C15_Witness ==
    \E row \in db.recipes :
        /\ nCalls = 2 /\ row.version = 2
        /\ Cardinality(MainRows(db, row.id)) = 1
        /\ Cardinality(db.recipe_images) < seq.images - 1

\* Two finished Gets of the same recipe that both returned ok with the
\* version that is stored now: versions only grow and ids are not reused, so
\* no write of the recipe has committed since the first query of either.
SameRead(p, q) ==
    /\ p # q
    /\ pc[p] = "idle" /\ pc[q] = "idle"
    /\ call[p].op = "Get" /\ call[q].op = "Get" /\ call[p].id = call[q].id
    /\ ret[p] = "ok" /\ ret[q] = "ok"
    /\ rcp[p].Version = StoredVersion(db, call[p].id)
    /\ rcp[q].Version = StoredVersion(db, call[q].id)

\* C16: Idempotent read.  Two Gets of a recipe with no write of it between
\* them return identical aggregates, the order of ingredients, equipment,
\* steps and step images included.
C16_IdempotentRead ==
    \A p, q \in Procs : SameRead(p, q) => rcp[p] = rcp[q]

\* C17: Collections of a loaded aggregate.  In every Recipe a Get returns
\* with ok, Ingredients, RequiredEquipment, Instructions and the ImageURLs of
\* every step are lists, never nil; they are the empty list when the recipe
\* has no such rows.
C17_NeverNil ==
    \A p \in Procs :
        (pc[p] = "idle" /\ call[p].op = "Get" /\ ret[p] = "ok") =>
            /\ rcp[p].Ingredients # NilEntries
            /\ rcp[p].RequiredEquipment # NilNames
            /\ rcp[p].Instructions # NilEntries
            /\ \A k \in DOMAIN rcp[p].Instructions :
                  rcp[p].Instructions[k].ImageURLs # NilNames
            /\ RowsOf(db, call[p].id).recipes # {} =>
                  /\ RowsOf(db, call[p].id).recipe_ingredients = {} =>
                        rcp[p].Ingredients = <<>>
                  /\ RowsOf(db, call[p].id).recipe_equipment = {} =>
                        rcp[p].RequiredEquipment = <<>>
                  /\ RowsOf(db, call[p].id).recipe_instructions = {} =>
                        rcp[p].Instructions = <<>>

\* C17 witness: Get of a stored recipe without children has returned ok with
\* three empty lists.
C17_Witness ==
    \E p \in Procs :
        /\ pc[p] = "idle" /\ call[p].op = "Get" /\ ret[p] = "ok"
        /\ RowsOf(db, call[p].id).recipes # {}
        /\ rcp[p].Ingredients = <<>> /\ rcp[p].RequiredEquipment = <<>>
        /\ rcp[p].Instructions = <<>>

\* The step s as Get returns it is a step of the Recipe r, with the image
\* URLs in the order r lists them (the order Insert and Update insert them).
StepOf(s, r) ==
    \E k \in DOMAIN r.Instructions : [s EXCEPT !.ID = 0] = r.Instructions[k]

\* C18: Read ordering.  A Get that returns ok returns the ingredients in
\* ascending name order, the equipment in ascending name order and the steps
\* in ascending StepNumber order; when no write of the recipe has committed
\* since its first query, each step carries its image URLs in the order they
\* were inserted.
C18_ReadOrdering ==
    \A p \in Procs :
        (pc[p] = "idle" /\ call[p].op = "Get" /\ ret[p] = "ok") =>
            LET a == rcp[p]
            IN  /\ \A i, j \in DOMAIN a.Ingredients :
                      i < j => Collate(a.Ingredients[i].Ingredient)
                                  < Collate(a.Ingredients[j].Ingredient)
                /\ \A i, j \in DOMAIN a.RequiredEquipment :
                      i < j => Collate(a.RequiredEquipment[i]) < Collate(a.RequiredEquipment[j])
                /\ \A i, j \in DOMAIN a.Instructions :
                      i < j => a.Instructions[i].StepNumber <= a.Instructions[j].StepNumber
                /\ a.Version = StoredVersion(db, call[p].id) =>
                      \A k \in DOMAIN a.Instructions :
                          StepOf(a.Instructions[k], last[call[p].id].given)

\* C18 witness: a recipe given as salt, oil / pot, pan / step 2, step 1 has
\* come back as oil, salt / pan, pot / step 1 with a.png, b.png, step 2.
C18_Witness ==
    \E p \in Procs :
        /\ pc[p] = "idle" /\ call[p].op = "Get" /\ ret[p] = "ok"
        /\ last[call[p].id].given.Ingredients = <<Salt, Oil>>
        /\ StripIDs(rcp[p].Ingredients) = <<Oil, Salt>>
        /\ rcp[p].RequiredEquipment = <<"pan", "pot">>
        /\ StripIDs(rcp[p].Instructions) = <<Chop, Boil>>

\* The caller p has returned from GetAll, with a list or with an error.
Listed(p) == pc[p] = "idle" /\ call[p].op = "GetAll" /\ ret[p] \in {"ok", "error"}

\* The ids of the recipes matching q, in ascending order.
MatchingIDs(d, q) ==
    LET ids == {r.id : r \in FilteredRecipes(d, q)}
    IN  CHOOSE f \in [1..Cardinality(ids) -> ids] :
            \A i, j \in DOMAIN f : i < j => f[i] < f[j]

\* ceil(n / s)
CeilDiv(n, s) == (n + s - 1) \div s

\* C19: Pagination window.  With sort "id" and N >= 1 matching recipes,
\* GetAll(page p, pageSize s) returns the matching recipes at positions
\* (p-1)*s+1 .. min(p*s, N) of the ascending id order, each once, and
\* metadata last_page = ceil(N / s).
C19_PaginationWindow ==
    \A p \in Procs :
        LET q == listing[p].query
            ids == MatchingIDs(db, q)
            n == Len(ids)
            from == (q.Page - 1) * q.PageSize
            to == IF q.Page * q.PageSize < n THEN q.Page * q.PageSize ELSE n
        IN  (Listed(p) /\ q.Sort = "id" /\ n >= 1) =>
                /\ ret[p] = "ok"
                /\ listing[p].recipes # NilEntries
                /\ [k \in DOMAIN listing[p].recipes |-> listing[p].recipes[k].ID]
                      = [k \in 1..(to - from) |-> ids[from + k]]
                /\ listing[p].metadata.LastPage = CeilDiv(n, q.PageSize)

\* C20: Total count.  Whenever GetAll returns a list, for any page including
\* one past the last, total_records equals the number of recipes matching
\* the filters before pagination.
C20_TotalCount ==
    \A p \in Procs :
        (Listed(p) /\ ret[p] = "ok") =>
            listing[p].metadata.TotalRecords
                = Cardinality(FilteredRecipes(db, listing[p].query))

ReportedTime(col) == IF col = Null THEN 0 ELSE col[1] * 1000

\* The recipe row r satisfies the filters of q as the contract states them:
\* the name contains q.name whatever the case of the letters, one of its
\* ingredient names contains one of q.ingredients, the same for equipment,
\* and each reported time is at most its limit; an empty text, an empty list
\* and a zero limit do not filter.
Satisfies(d, r, q) ==
    /\ q.name = "" \/ Contains(Fold(Chars[r.name]), Fold(Chars[q.name]))
    /\ Len(q.ingredients) = 0 \/
          \E l \in d.recipe_ingredients, i \in d.ingredients, k \in DOMAIN q.ingredients :
              /\ l.recipe_id = r.id /\ l.ingredient_id = i.id
              /\ Contains(Fold(Chars[i.name]), Fold(Chars[q.ingredients[k]]))
    /\ Len(q.equipment) = 0 \/
          \E l \in d.recipe_equipment, e \in d.equipment, k \in DOMAIN q.equipment :
              /\ l.recipe_id = r.id /\ l.equipment_id = e.id
              /\ Contains(Fold(Chars[e.name]), Fold(Chars[q.equipment[k]]))
    /\ q.prepTime = 0 \/ ReportedTime(r.prep_time) <= q.prepTime
    /\ q.activeTime = 0 \/ ReportedTime(r.active_time) <= q.activeTime

\* The ids of the recipes in the list GetAll returned to p.
ListedIDs(p) == {listing[p].recipes[k].ID : k \in DOMAIN listing[p].recipes}

\* C22: Filter semantics.  Whenever GetAll returns a list, the recipes it
\* counts and pages over are exactly the stored recipes that satisfy the
\* filters: every listed recipe satisfies them, a first page is empty only
\* when none does, and a page that is not empty comes with their number as
\* total_records.
C22_FilterSemantics ==
    \A p \in Procs :
        (Listed(p) /\ ret[p] = "ok") =>
            LET q == listing[p].query
                want == {r.id : r \in {x \in db.recipes : Satisfies(db, x, q)}}
            IN  /\ ListedIDs(p) \subseteq want
                /\ (q.Page = 1 /\ want # {}) => ListedIDs(p) # {}
                /\ ListedIDs(p) # {} => listing[p].metadata.TotalRecords = Cardinality(want)

\* The call of p filters by the time limits alone.
TimesOnly(q) == q.name = "" /\ Len(q.ingredients) = 0 /\ Len(q.equipment) = 0

\* The ids of the recipes whose reported prep and active time are within the
\* limits of q, a zero limit not filtering.
WithinLimits(d, q) ==
    {r.id : r \in {x \in d.recipes :
        /\ q.prepTime = 0 \/ ReportedTime(x.prep_time) <= q.prepTime
        /\ q.activeTime = 0 \/ ReportedTime(x.active_time) <= q.activeTime}}

\* C23: Time filter.  Whenever GetAll, called with time limits alone, returns
\* a list, it has selected exactly the recipes whose prep time and active
\* time as Get reports them (an absent time as zero) are within the limits,
\* a zero limit selecting every recipe: every listed recipe is one of them, a
\* first page is empty only when there is none, and a page that is not empty
\* comes with their number as total_records.
C23_TimeFilter ==
    \A p \in Procs :
        (Listed(p) /\ ret[p] = "ok" /\ TimesOnly(listing[p].query)) =>
            LET want == WithinLimits(db, listing[p].query)
            IN  /\ ListedIDs(p) \subseteq want
                /\ (listing[p].query.Page = 1 /\ want # {}) => ListedIDs(p) # {}
                /\ ListedIDs(p) # {} => listing[p].metadata.TotalRecords = Cardinality(want)

\* The column a sort value with a leading '-' names after it.
Descending ==
    ("-id" :> "id") @@ ("-name" :> "name") @@ ("-prep_time" :> "prep_time")
    @@ ("-active_time" :> "active_time")

\* The order the contract states for a sort value.
SafeOrder(sort) ==
    IF sort \in sortColumns THEN [column |-> sort, desc |-> FALSE]
    ELSE IF sort \in DOMAIN Descending THEN [column |-> Descending[sort], desc |-> TRUE]
    ELSE [column |-> "id", desc |-> FALSE]

\* C24: Sort safelist.  GetAll orders by id, name, prep_time or active_time,
\* ascending when the sort value is that name and descending when it is that
\* name after '-', and by ascending id for every other sort value: the ORDER
\* BY clause names that column and direction and nothing else, and a list
\* GetAll returns is the requested page of the matching recipes in that order.
C24_SortSafelist ==
    \A p \in Procs :
        (Listed(p) /\ ret[p] = "ok") =>
            LET q == listing[p].query
                rows == JoinMain(db, FilteredRecipes(db, q))
            IN  /\ OrderBy(q.Sort) = SafeOrder(q.Sort)
                /\ \E f \in OrdersBy(rows, SafeOrder(q.Sort)) :
                      listing[p].recipes = ScanRows(Window(f, q.Page, q.PageSize))

\* C24 witness: sorted by "-name", GetAll has returned "Stew" before "Soup"
\* although "Soup" has the lower id.
C24_Witness ==
    \E p \in Procs :
        /\ Listed(p) /\ ret[p] = "ok" /\ Len(listing[p].recipes) = 2
        /\ listing[p].recipes[1].ID > listing[p].recipes[2].ID
        /\ listing[p].query.Sort = "-name"
        /\ listing[p].recipes[1].Name = "Stew" /\ listing[p].recipes[2].Name = "Soup"

\* The Recipe a, as read, has zero where the row holds no prep time, active
\* time or servings.
AbsentAsZero(a, row) ==
    /\ row.prep_time = Null => a.PrepTime = 0
    /\ row.active_time = Null => a.ActiveTime = 0
    /\ row.servings = Null => a.Servings = 0

\* C25: Store duration codec.  A committed row holds no prep time exactly when
\* the Recipe last written had PrepTime zero (the value of an omitted field),
\* the same for the active time and for the servings; Get and GetAll return a
\* time and servings the row does not hold as zero.
C25_StoreCodec ==
    /\ \A row \in db.recipes :
          LET g == last[row.id].given
          IN  /\ row.prep_time = Null <=> g.PrepTime = 0
              /\ row.active_time = Null <=> g.ActiveTime = 0
              /\ row.servings = Null <=> g.Servings = 0
    /\ \A p \in Procs :
          /\ (pc[p] = "idle" /\ call[p].op = "Get" /\ ret[p] = "ok") =>
                \A row \in RecipeRows(db, call[p].id) : AbsentAsZero(rcp[p], row)
          /\ (Listed(p) /\ ret[p] = "ok") =>
                \A k \in DOMAIN listing[p].recipes :
                    \A row \in RecipeRows(db, listing[p].recipes[k].ID) :
                        AbsentAsZero(listing[p].recipes[k], row)

\* C25 witness: a recipe written with zero times and zero servings and one
\* written with a prep time are stored, the first without any of the three,
\* the second with a prep time, and Get has returned the first with zeros.
C25_Witness ==
    \E p \in Procs :
        /\ pc[p] = "idle" /\ call[p].op = "Get" /\ ret[p] = "ok"
        /\ rcp[p].PrepTime = 0 /\ rcp[p].ActiveTime = 0 /\ rcp[p].Servings = 0
        /\ \E row \in RecipeRows(db, call[p].id) :
              row.prep_time = Null /\ row.active_time = Null /\ row.servings = Null
        /\ \E row \in db.recipes :
              row.prep_time # Null /\ last[row.id].given.PrepTime # 0

\* C26: Text duration codec.  UnmarshalJSON succeeds exactly on a JSON string
\* holding a parseable duration and otherwise returns an error and leaves the
\* Duration as it was; parsing what MarshalJSON returned gives the Duration
\* that was serialized; and serializing a Duration gives back the text it was
\* parsed from.
C26_TextCodec ==
    [][/\ codec'.op = "Unmarshal" =>
            /\ codec'.err = "nil" <=> (codec'.b.kind = "string" /\ ParseOK(codec'.b.text))
            /\ codec'.err # "nil" => codec'.d = codec.d
            /\ (codec.op = "Marshal" /\ codec'.b = codec.b) =>
                  (codec'.err = "nil" /\ codec'.d = codec.d)
       /\ (codec'.op = "Marshal" /\ codec.op = "Unmarshal" /\ codec.err = "nil") =>
            codec'.b = codec.b]_vars

\* C27: Bounded timeout.  Once the store has stopped answering, every call of
\* Insert, Get, Update, Delete and GetAll that is under way eventually returns
\* a failure to its caller.
C27_BoundedTimeout ==
    \A p \in Procs :
        (store = "down" /\ pc[p] # "idle") ~> (pc[p] = "idle" /\ ret[p] \in Errors)

\* C28: Update never changes ID or CreatedAt.  No step changes the created_at
\* of a stored recipe row, a committed Update leaves the recipe stored under
\* the id it was called with, and a Get that returns ok returns the id asked
\* for and the created_at of the stored row, which is the one Insert assigned.
C28_UpdateKeepsIdentity ==
    [][/\ \A old \in db.recipes : \A new \in db'.recipes :
              new.id = old.id => new.created_at = old.created_at
       /\ (db'.recipes # db.recipes /\ \E p \in Procs : call[p].op = "Update") =>
              {r.id : r \in db'.recipes} = {r.id : r \in db.recipes}
       /\ \A p \in Procs :
              (pc'[p] = "idle" /\ call'[p].op = "Get" /\ ret'[p] = "ok") =>
                  /\ rcp'[p].ID = call'[p].id
                  /\ \A row \in RecipeRows(db', call'[p].id) :
                        rcp'[p].CreatedAt = row.created_at]_vars

\* C28 witness: the recipe inserted at time 1 has been updated once, every
\* write call of the run has been made, and Get has returned the recipe at
\* version 2 with CreatedAt 1.
C28_Witness ==
    \E p \in Procs :
        /\ pc[p] = "idle" /\ call[p].op = "Get" /\ ret[p] = "ok"
        /\ last[call[p].id].updates # <<>>
        /\ nCalls = MaxWrites
        /\ rcp[p].Version = 2
        /\ rcp[p].CreatedAt = 1
        /\ RecipeRows(db, call[p].id) # {}

\* The Recipe carries negative servings or a negative duration.
Negative(r) == r.Servings < 0 \/ r.PrepTime < 0 \/ r.ActiveTime < 0

\* C29: Stored value constraints.  Every committed recipe row has servings
\* absent or > 0, prep time absent or >= 0 and active time absent or >= 0;
\* and an Insert or Update whose Recipe carries negative servings or a
\* negative duration does not return ok and leaves the committed rows as they
\* were.
C29_ValueConstraints ==
    [][/\ \A row \in db'.recipes :
              /\ row.servings = Null \/ row.servings[1] > 0
              /\ row.prep_time = Null \/ row.prep_time[1] >= 0
              /\ row.active_time = Null \/ row.active_time[1] >= 0
       /\ \A p \in Procs :
              (/\ pc[p] # "idle" /\ pc'[p] = "idle"
               /\ call[p].op \in {"Insert", "Update"} /\ Negative(rcp[p])) =>
                  (ret'[p] # "ok" /\ db' = db)]_vars

\* The rows of reference table k that are committed or inserted by an open
\* transaction.
AllRefs(k) == db[k] \cup UNION {tx[p].put[k] : p \in Procs}

\* C30: Concurrent reference resolution.  Transactions that upsert the same
\* ingredient or equipment name at the same time never hold two rows for it:
\* among the committed rows and the rows of all open transactions there is one
\* row per name, and every junction row, committed or of an open transaction,
\* points at the one row of its name that its transaction sees; so when both
\* commit, one reference row exists and both recipes point at it.
C30_ConcurrentResolve ==
    /\ \A k \in {"ingredients", "equipment"} :
          \A x, y \in AllRefs(k) : x.name = y.name => x.id = y.id
    /\ \A p \in Procs :
          LET v == View(db, tx[p])
          IN  /\ \A l \in v.recipe_ingredients :
                    Cardinality({x \in v.ingredients : x.id = l.ingredient_id}) = 1
              /\ \A l \in v.recipe_equipment :
                    Cardinality({x \in v.equipment : x.id = l.equipment_id}) = 1

\* C30 witness: an open transaction has inserted the row of a name that was
\* not stored, and another open transaction is at the upsert of that same
\* name, waiting for it.
C30_Witness ==
    \E p, q \in Procs :
        /\ p # q /\ pc[p] = "ingredients" /\ pc[q] # "idle"
        /\ LET n == rcp[p].Ingredients[pos[p]].Ingredient
           IN  /\ Named(db.ingredients, n) = {}
               /\ Named(tx[q].put.ingredients, n) # {}
               /\ LockedByOther(p, <<"ingredients", n>>)

\* The handler of p has called Update and Update has returned.
Served(p) == req[p].stage = "update" /\ pc[p] = "idle"

\* C31: PATCH under concurrency.  Of two handlers that read the same version
\* of the same recipe at most one commits; a handler that gets the
\* edit-conflict response has stored nothing; and a handler commits only
\* while the store still holds the version its Get read, so that it never
\* overwrites an update committed after its Get.
C31_PatchNoLostUpdate ==
    /\ [](\A p, q \in Procs :
            (/\ p # q /\ Served(p) /\ Served(q)
             /\ req[p].id = req[q].id /\ req[p].got.Version = req[q].got.Version)
            => ~(Response(p) = "ok" /\ Response(q) = "ok"))
    /\ [][\A p \in Procs :
            /\ (req[p].stage = "update" /\ ~Served(p) /\ Served(p)'
                /\ Response(p)' = "editConflict") => db' = db
            /\ (req[p].stage = "update" /\ ~Served(p) /\ Served(p)'
                /\ Response(p)' = "ok")
               => /\ StoredVersion(db, req[p].id) = req[p].got.Version
                  /\ StoredVersion(db', req[p].id) = req[p].got.Version + 1]_vars

\* C31 witness: two handlers read the same version of the same recipe; one
\* has committed, the other has the edit-conflict response.
C31_Witness ==
    \E p, q \in Procs :
        /\ p # q /\ Served(p) /\ Served(q)
        /\ req[p].id = req[q].id /\ req[p].got.Version = req[q].got.Version
        /\ Response(p) = "ok" /\ Response(q) = "editConflict"
        /\ StoredVersion(db, req[p].id) = req[p].got.Version + 1

\* The handler of p has answered 200 and its Update is the last committed
\* write of the recipe.
LastPatch(p) ==
    /\ Served(p) /\ Response(p) = "ok"
    /\ last[req[p].id].given = rcp[p]
    /\ StoredVersion(db, req[p].id) = rcp[p].Version

\* A Get of the recipe the handler of p patched, made by another caller after
\* the PATCH was committed and finished without the store failing it.
GetAfterPatch(q, p) ==
    /\ q # p /\ req[q].stage = "none"
    /\ pc[q] = "idle" /\ call[q].op = "Get" /\ call[q].id = req[p].id
    /\ \/ ret[q] = "error"
       \/ ret[q] = "ok" /\ snaps[q] # {} /\ snaps[q] \subseteq Aggregates(db, req[p].id)

\* The field value of the Recipe a is the one the request supplied or, the
\* field being omitted, the one of the Recipe b read before.
Patched(given, now, before) == IF given # Null THEN now = given[1] ELSE now = before

\* C32: Partial update merge.  A Get after a successful PATCH returns ok with
\* the supplied value of every supplied field and, for every omitted field or
\* collection, the value stored before the PATCH (child ids aside); a
\* supplied empty list leaves the collection empty.
C32_PatchMerge ==
    \A p, q \in Procs :
        (LastPatch(p) /\ GetAfterPatch(q, p)) =>
            LET in == req[p].input
                b == Content(req[p].got)
                a == Content(rcp[q])
            IN  /\ ret[q] = "ok"
                /\ Patched(in.Name, a.Name, b.Name)
                /\ Patched(in.Description, a.Description, b.Description)
                /\ Patched(in.Notes, a.Notes, b.Notes)
                /\ Patched(in.SourceURL, a.SourceURL, b.SourceURL)
                /\ Patched(in.DisplayURL, a.DisplayURL, b.DisplayURL)
                /\ Patched(in.PrepTime, a.PrepTime, b.PrepTime)
                /\ Patched(in.ActiveTime, a.ActiveTime, b.ActiveTime)
                /\ Patched(in.Servings, a.Servings, b.Servings)
                /\ Patched(in.RequiredEquipment, a.RequiredEquipment, b.RequiredEquipment)
                /\ IF in.Ingredients # Null
                   THEN a.Ingredients = StripIDs(in.Ingredients[1])
                   ELSE a.Ingredients = b.Ingredients
                /\ IF in.Instructions # Null
                   THEN a.Instructions = StripIDs(in.Instructions[1])
                   ELSE a.Instructions = b.Instructions

\* C33: No wait cycle between writers.  Two write transactions never wait
\* for each other, and every Insert or Update that has started returns
\* without the store having aborted it.
C33_NoWaitCycle ==
    /\ [](~WaitCycle)
    /\ \A p \in Procs :
          (pc[p] # "idle" /\ call[p].op \in {"Insert", "Update"})
              ~> (pc[p] = "idle" /\ ret[p] # "failed")

\* C34: Caller's value on failure.  After Update has returned, the Version of
\* the caller's Recipe is the version it carried on entry when Update
\* returned an error, and that version plus one when Update committed.
C34_CallerVersion ==
    \A p \in Procs :
        (pc[p] = "idle" /\ call[p].op = "Update" /\ ret[p] # "none") =>
            IF ret[p] = "ok"
            THEN rcp[p].Version = call[p].version + 1
            ELSE rcp[p].Version = call[p].version

\* C35: Identity uniqueness.  The ID a committing Insert returns is positive
\* and was never returned by a committed Insert before, deleted recipes and
\* failed Inserts included; a deleted id has no row again, so that Get keeps
\* answering NotFound for it.
C35_FreshIdentity ==
    /\ [](\A id \in DOMAIN last : last[id].deleted => RecipeRows(db, id) = {})
    /\ [][\A p \in Procs :
            (call[p].op = "Insert" /\ pc[p] = "commit" /\ pc'[p] = "idle"
                /\ ret'[p] = "ok")
            => /\ rcp'[p].ID > 0
               /\ last[rcp'[p].ID] = NoLast
               /\ RecipeRows(db, rcp'[p].ID) = {}
               /\ \A id \in DOMAIN last : last[id].deleted => last'[id].deleted]_vars

\* C35 witness: recipe 1 was deleted, an Insert failed after it had drawn an
\* id, a later Insert has committed under a new id, and a Get of the deleted
\* id has answered NotFound since.
C35_Witness ==
    /\ last[1].deleted /\ RecipeRows(db, 1) = {}
    /\ RecipeRows(db, 2) = {} /\ last[2] = NoLast
    /\ RecipeRows(db, 3) # {}
    /\ \E p \in Procs : pc[p] = "idle" /\ call[p].op = "Get" /\ call[p].id = 1
                        /\ ret[p] = "NotFound"

\* The Recipe names an ingredient or an equipment twice.
NamesTwice(r) ==
    \/ \E i, j \in DOMAIN r.Ingredients :
          i # j /\ r.Ingredients[i].Ingredient = r.Ingredients[j].Ingredient
    \/ \E i, j \in DOMAIN r.RequiredEquipment :
          i # j /\ r.RequiredEquipment[i] = r.RequiredEquipment[j]

\* C36: One junction row per pair.  The committed junction rows hold each
\* (recipe, ingredient) pair once; an Insert or Update whose Recipe names an
\* ingredient or an equipment twice never commits: it returns an error and
\* leaves the committed rows as they were.
C36_JunctionPairs ==
    /\ [](\A x, y \in db.recipe_ingredients :
            (x.recipe_id = y.recipe_id /\ x.ingredient_id = y.ingredient_id) => x = y)
    /\ [][\A p \in Procs :
            (pc[p] # "idle" /\ call[p].op \in {"Insert", "Update"} /\ NamesTwice(rcp[p]))
            => /\ db' = db
               /\ pc'[p] # "commit"
               /\ pc'[p] = "idle" => ret'[p] \in {"error", "failed", "EditConflict"}]_vars

\* C36 witness: an Update naming an equipment twice has returned the error
\* of the store; the recipe is stored as it was inserted, at the version the
\* Update carried and with its one equipment row.
C36_Witness ==
    \E p \in Procs :
        /\ pc[p] = "idle" /\ call[p].op = "Update" /\ ret[p] = "error"
        /\ rcp[p].RequiredEquipment = <<"pan", "pan">>
        /\ StoredVersion(db, call[p].id) = call[p].version
        /\ Cardinality(db.recipe_equipment) = 1

\* Every child row of d belongs to a recipe row of d, every link to an
\* instruction row and an image row of d.
NoOrphans(d) ==
    /\ \A k \in {"recipe_ingredients", "recipe_equipment", "recipe_instructions",
                 "recipe_images"} :
          \A x \in d[k] : RecipeRows(d, x.recipe_id) # {}
    /\ \A l \in d.recipe_instruction_images :
          /\ \E x \in d.recipe_instructions : x.id = l.instruction_id
          /\ \E x \in d.recipe_images : x.id = l.image_id

\* C37: No orphans under racing writes.  Every committed child row references
\* a stored recipe and every link a stored step and image; when a Delete
\* commits, no row of its recipe is left and no open transaction holds a row
\* written for it, so that an Update racing with the Delete has either
\* committed before (its rows are removed) or will get the edit conflict.
C37_NoOrphans ==
    /\ [](NoOrphans(db))
    /\ [][\A p \in Procs :
            (call[p].op = "Delete" /\ pc[p] = "del_recipe" /\ pc'[p] = "idle"
                /\ ret'[p] = "ok")
            => /\ RowsOf(db', call[p].id) = NoRowsOf
               /\ \A q \in Procs \ {p} :
                     /\ RowsOf(tx[q].put, call[p].id) = NoRowsOf
                     /\ (call[q].op = "Update" /\ call[q].id = call[p].id
                         /\ pc[q] = "upd_recipe")
                        => Matching(View(db', tx[q]).recipes, rcp[q].ID,
                                    rcp[q].Version) = {}]_vars

\* C37 witness: an Update and a Delete of the same recipe have both returned
\* ok, the Update having committed children; nothing of the recipe is stored.
C37_Witness ==
    \E p, q \in Procs :
        /\ p # q /\ pc[p] = "idle" /\ pc[q] = "idle"
        /\ call[p].op = "Delete" /\ ret[p] = "ok"
        /\ call[q].op = "Update" /\ ret[q] = "ok" /\ call[q].id = call[p].id
        /\ Len(rcp[q].Ingredients) > 0 /\ Len(rcp[q].Instructions) > 0
        /\ last[call[p].id].deleted
        /\ RowsOf(db, call[p].id) = NoRowsOf
        /\ db.recipe_instruction_images = {}

\* The step of p commits a write of recipe id: the Commit of an Insert or
\* Update of id, or the DELETE of id.
WritesTo(p, id) ==
    /\ pc'[p] = "idle" /\ ret'[p] = "ok"
    /\ \/ pc[p] = "commit" /\ rcp[p].ID = id
       \/ pc[p] = "del_recipe" /\ call[p].id = id

\* C38: Isolation between recipes.  What Get can return for a recipe (fields,
\* version, ingredients with their reference ids, equipment, steps, images)
\* changes only in a step that commits a write of that recipe: no statement,
\* commit, rollback or failure of a write of another recipe changes it.
C38_Isolation ==
    [][\A id \in 1..lim.writes :
        Aggregates(db', id) # Aggregates(db, id) => \E p \in Procs : WritesTo(p, id)]_vars

\* C38 witness: two stored recipes use the same ingredient row; one of them
\* has been updated, the other is stored as inserted.
C38_Witness ==
    \E x, y \in db.recipe_ingredients :
        /\ x.recipe_id # y.recipe_id /\ x.ingredient_id = y.ingredient_id
        /\ last[y.recipe_id].updates # <<>>
        /\ StoredVersion(db, x.recipe_id) = 1
        /\ Aggregates(db, x.recipe_id) # {}

\* GetAll of p has returned, and the number of records it reports is the
\* number of recipes that match its query now: with recipes only ever added,
\* nothing was written since the call.
ListedNow(p) ==
    /\ Listed(p)
    /\ listing[p].recipes # NilEntries
    /\ listing[p].metadata.TotalRecords
          = Cardinality(FilteredRecipes(db, listing[p].query))

\* C39: Paging covers the result exactly once.  With nothing written in
\* between, two different pages of the same query, whatever its sort key,
\* have no recipe in common, and pages 1 and 2 of a result of two pages hold
\* every matching recipe.
C39_PagesCover ==
    \A p, q \in Procs :
        (/\ p # q /\ ListedNow(p) /\ ListedNow(q)
         /\ listing[p].query.Page < listing[q].query.Page
         /\ [listing[p].query EXCEPT !.Page = 1] = [listing[q].query EXCEPT !.Page = 1])
        => /\ ret[p] = "ok" /\ ret[q] = "ok"
           /\ ListedIDs(p) \cap ListedIDs(q) = {}
           /\ (listing[p].query.Page = 1 /\ listing[q].query.Page = 2
               /\ listing[p].metadata.LastPage = 2)
              => ListedIDs(p) \cup ListedIDs(q)
                    = {r.id : r \in FilteredRecipes(db, listing[p].query)}

====
